---------------------------- MODULE Spec2Model ----------------------------
(***************************************************************************)
(* Constant propagation of ONNX operations (src/Transform/ONNX/            *)
(* ConstProp.cpp).  Tensors are a shape (a sequence of extents) and a      *)
(* row-major buffer (a sequence of elements); buffer positions are         *)
(* 0-based as in the source, so position p is element p + 1 of the         *)
(* sequence.  The model is that of a build with assertions enabled:        *)
(* a failing assert and llvm_unreachable both abort the process.           *)
(***************************************************************************)
EXTENDS Integers, Sequences, FiniteSets, TLC

(***************************************************************************)
(* Bounds of the model.                                                    *)
(***************************************************************************)
MaxRank == 2
MaxDim == 2
MaxSlices == 2
MaxStep == 2
MaxInputs == 2
MaxResults == 2
\* size_t is modelled SizeTBits wide (TLC's integers cannot hold 2^64); every
\* buffer of the model is far smaller than 2^SizeTBits.
SizeTBits == 16

\* The pattern applications that count, and the reports, of one process.
MaxFolds == 2

MaxDumps == 2

\* The count calls of one thread.
MaxCalls == 2

\* The operations of a function body.
MaxNodes == 3

VARIABLES
  op,        \* the operation offered to its pattern (operands, attributes)
  pc,        \* "offered", then how the fold ended
  created,   \* the ONNXConstantOps created, in order: [shape, elems]
  trace,     \* what the fold computed on its way (buffers, axes, sizes)
  counters,  \* ConstPropCounters::map
  diags,     \* error diagnostics emitted
  passState, \* the pass: "running", "succeeded", "failed", "crashed"
  func,      \* the function the pass runs on: its operations, by position
  sink,      \* llvm::outs(): the reports dumped so far
  threads    \* the threads inside ConstPropCounters::count

vars == <<op, pc, created, trace, counters, diags, passState, func, sink, threads>>

(***************************************************************************)
(* Shapes and buffers.                                                     *)
(***************************************************************************)
Min2(a, b) == IF a < b THEN a ELSE b

DropFront(s, n) == IF n >= Len(s) THEN <<>> ELSE SubSeq(s, n + 1, Len(s))

DropBack(s) == SubSeq(s, 1, Len(s) - 1)

TakeFront(s, n) == SubSeq(s, 1, Min2(n, Len(s)))

RECURSIVE NumElements(_)
NumElements(shape) ==
  IF shape = <<>> THEN 1 ELSE shape[1] * NumElements(Tail(shape))

RECURSIVE SeqSum(_)
SeqSum(s) == IF s = <<>> THEN 0 ELSE s[1] + SeqSum(Tail(s))

\* n consecutive elements base, base + 1, ...: every element names its position.
Iota(n, base) == [i \in 1..n |-> base + i - 1]

\* All sequences of length n over S.
RECURSIVE Tuples(_, _)
Tuples(n, S) ==
  IF n = 0 THEN {<<>>}
  ELSE {<<x>> \o t : x \in S, t \in Tuples(n - 1, S)}

\* All shapes of rank lo..hi with extents in D.
ShapesOf(lo, hi, D) == UNION {Tuples(r, D) : r \in lo..hi}

\* The multi-indices of a shape, each component 0-based.
RECURSIVE MultiIndices(_)
MultiIndices(shape) ==
  IF shape = <<>> THEN {<<>>}
  ELSE {<<i>> \o t : i \in 0..(shape[1] - 1), t \in MultiIndices(Tail(shape))}

\* Row-major position of a multi-index (Horner form).
RECURSIVE RowMajorFrom(_, _, _)
RowMajorFrom(acc, idx, shape) ==
  IF idx = <<>> THEN acc
  ELSE RowMajorFrom(acc * shape[1] + idx[1], Tail(idx), Tail(shape))

RowMajor(idx, shape) == RowMajorFrom(0, idx, shape)

InRange(idx, shape) ==
  \A j \in 1..Len(idx) : 0 <= idx[j] /\ idx[j] < shape[j]

(***************************************************************************)
(* getStrides, getLinearAccessIndex.                                       *)
(***************************************************************************)
RECURSIVE getStrides(_)
getStrides(shape) ==
  IF shape = <<>> THEN <<>>
  ELSE <<NumElements(Tail(shape))>> \o getStrides(Tail(shape))

RECURSIVE getLinearAccessIndexFrom(_, _, _)
getLinearAccessIndexFrom(i, indices, strides) ==
  IF i > Len(strides) THEN 0
  ELSE indices[i] * strides[i] + getLinearAccessIndexFrom(i + 1, indices, strides)

getLinearAccessIndex(indices, strides) ==
  getLinearAccessIndexFrom(1, indices, strides)

(***************************************************************************)
(* std::copy_n(src + srcOff, n, dst + dstOff) on a buffer state            *)
(* [out, writes, oob]: writes counts the stores per position, oob records  *)
(* a load or store outside its buffer (such a store changes no element of  *)
(* the output buffer).                                                     *)
(***************************************************************************)
RECURSIVE CopyN(_, _, _, _, _)
CopyN(st, src, srcOff, n, dstOff) ==
  IF n <= 0 THEN st
  ELSE
    LET rdOk == 0 <= srcOff /\ srcOff < Len(src)
        wrOk == 0 <= dstOff /\ dstOff < Len(st.out)
        v    == IF rdOk THEN src[srcOff + 1] ELSE -1
        nxt  == IF wrOk
                  THEN [out    |-> [st.out EXCEPT ![dstOff + 1] = v],
                        writes |-> [st.writes EXCEPT ![dstOff + 1] = @ + 1],
                        oob    |-> st.oob \/ ~rdOk]
                  ELSE [st EXCEPT !.oob = TRUE]
    IN CopyN(nxt, src, srcOff + 1, n - 1, dstOff + 1)

\* An output buffer of n elements before the filler runs.
FreshBuffer(n) ==
  [out |-> [i \in 1..n |-> -1], writes |-> [i \in 1..n |-> 0], oob |-> FALSE]

(***************************************************************************)
(* ConstPropCounters.                                                      *)
(***************************************************************************)
\* A count that adds the elements of the first operand only.
countFirstOperand(map, name, operandSizes) ==
  LET old == IF name \in DOMAIN map THEN map[name]
             ELSE [invocations |-> 0, input_elms |-> 0]
      new == [invocations |-> old.invocations + 1,
              input_elms  |-> old.input_elms + operandSizes[1]]
  IN [n \in (DOMAIN map) \cup {name} |-> IF n = name THEN new ELSE map[n]]

count(map, name, operandSizes) ==
  LET old == IF name \in DOMAIN map THEN map[name]
             ELSE [invocations |-> 0, input_elms |-> 0]
      new == [invocations |-> old.invocations + 1,
              input_elms  |-> old.input_elms + SeqSum(operandSizes)]
  IN [n \in (DOMAIN map) \cup {name} |-> IF n = name THEN new ELSE map[n]]

NoCounters == [n \in {} |-> [invocations |-> 0, input_elms |-> 0]]

NoTrace == [kind |-> "none"]

\* A tensor type, and an ElementsAttr: its type and its row-major elements.
TensorType(shape, elemType) == [shape |-> shape, elemType |-> elemType]

Elements(type, elems) ==
  [shape |-> type.shape, elemType |-> type.elemType, elems |-> elems]

\* createReplacingConstantOp: an ONNXConstantOp with the result type of
\* replacingValue that carries elements.
createReplacingConstantOp(replacingType, elements) ==
  [shape      |-> replacingType.shape,
   elemType   |-> replacingType.elemType,
   elems      |-> elements.elems,
   elemsShape |-> elements.shape,
   elemsType  |-> elements.elemType]

\* The entries of ConstPropCounters::map in the order a range-for visits
\* them (unspecified for an unordered_map, the same for both loops of dump).
RECURSIVE MapEntries(_, _)
MapEntries(map, names) ==
  IF names = {} THEN <<>>
  ELSE LET n == CHOOSE n \in names : TRUE
       IN <<[first |-> n, second |-> map[n]]>> \o MapEntries(map, names \ {n})

\* Totals that keep only the entry visited last.
dumpTotalsOfLastEntry(entries, i, total_invocations, total_input_elms) ==
  IF entries = <<>>
    THEN [total_invocations |-> total_invocations,
          total_input_elms  |-> total_input_elms]
    ELSE [total_invocations |-> entries[Len(entries)].second.invocations,
          total_input_elms  |-> entries[Len(entries)].second.input_elms]

RECURSIVE dumpTotals(_, _, _, _)
dumpTotals(entries, i, total_invocations, total_input_elms) ==
  IF i > Len(entries)
    THEN [total_invocations |-> total_invocations,
          total_input_elms  |-> total_input_elms]
    ELSE dumpTotals(entries, i + 1,
                    total_invocations + entries[i].second.invocations,
                    total_input_elms + entries[i].second.input_elms)

\* ConstPropCounters::dump: the header fields and one line per entry.
dump(map) ==
  LET entries == MapEntries(map, DOMAIN map)
      totals  == dumpTotals(entries, 1, 0, 0)
  IN [entries           |-> Cardinality(DOMAIN map),
      total_invocations |-> totals.total_invocations,
      total_input_elms  |-> totals.total_input_elms,
      lines |-> [i \in 1..Len(entries) |->
                   [name         |-> entries[i].first,
                    invocations  |-> entries[i].second.invocations,
                    input_elms   |-> entries[i].second.input_elms]]]

(***************************************************************************)
(* ScatterND.                                                              *)
(***************************************************************************)
RECURSIVE ScatterNDLoop(_, _, _, _, _, _, _, _)
ScatterNDLoop(i, n_slices, st, indices, indices_nd, sliceStrides, updates, slice_size) ==
  IF i >= n_slices THEN st
  ELSE
    LET idxs == SubSeq(indices, i * indices_nd + 1, i * indices_nd + indices_nd)
        pos  == getLinearAccessIndex(idxs, sliceStrides)
    IN ScatterNDLoop(i + 1, n_slices,
         CopyN(st, updates, i * slice_size, slice_size, pos),
         indices, indices_nd, sliceStrides, updates, slice_size)

\* The same loop run from the last index tuple to the first.
RECURSIVE ScatterNDLoopReversed(_, _, _, _, _, _, _, _)
ScatterNDLoopReversed(i, n_slices, st, indices, indices_nd, sliceStrides, updates, slice_size) ==
  IF i >= n_slices THEN st
  ELSE
    LET r    == n_slices - 1 - i
        idxs == SubSeq(indices, r * indices_nd + 1, r * indices_nd + indices_nd)
        pos  == getLinearAccessIndex(idxs, sliceStrides)
    IN ScatterNDLoopReversed(i + 1, n_slices,
         CopyN(st, updates, r * slice_size, slice_size, pos),
         indices, indices_nd, sliceStrides, updates, slice_size)

ScatterNDImplFirstWins(o) ==
  LET indices_nd   == o.indicesShape[Len(o.indicesShape)]
      outer        == DropBack(o.indicesShape)
      n_slices     == NumElements(outer)
      slice_size   == NumElements(DropFront(o.updatesShape, Len(outer)))
      dataStrides  == getStrides(o.dataShape)
      sliceStrides == TakeFront(dataStrides, indices_nd)
      st0 == [out    |-> o.data,
              writes |-> [i \in 1..Len(o.data) |-> 0],
              oob    |-> FALSE]
  IN ScatterNDLoopReversed(0, n_slices, st0, o.indices, indices_nd, sliceStrides,
                           o.updates, slice_size)

ScatterNDImpl(o) ==
  LET indices_nd   == o.indicesShape[Len(o.indicesShape)]
      outer        == DropBack(o.indicesShape)
      n_slices     == NumElements(outer)
      slice_size   == NumElements(DropFront(o.updatesShape, Len(outer)))
      dataStrides  == getStrides(o.dataShape)
      sliceStrides == TakeFront(dataStrides, indices_nd)
      st0 == [out    |-> o.data,
              writes |-> [i \in 1..Len(o.data) |-> 0],
              oob    |-> FALSE]
  IN ScatterNDLoop(0, n_slices, st0, o.indices, indices_nd, sliceStrides,
                   o.updates, slice_size)

\* A ScatterND operation: indices of shape outer ++ <<k>> holding the index
\* tuples ts, updates of the matching shape outer ++ dataShape[k..].
ScatterNDOp(dataShape, k, outer, ts) ==
  LET n == NumElements(outer)
      updatesShape == outer \o DropFront(dataShape, k)
  IN [kind         |-> "ScatterND",
      dataShape    |-> dataShape,
      data         |-> Iota(NumElements(dataShape), 0),
      indicesShape |-> outer \o <<k>>,
      tuples       |-> ts,
      indices      |-> IF n * k = 0 THEN <<>>
                       ELSE [p \in 1..(n * k) |->
                               ts[((p - 1) \div k) + 1][((p - 1) % k) + 1]],
      updatesShape |-> updatesShape,
      updates      |-> Iota(NumElements(updatesShape), 100),
      elemType     |-> "i64",
      outputShape  |-> dataShape,
      resultIsRanked |-> TRUE,
      isConstant   |-> [data |-> TRUE, indices |-> TRUE, updates |-> TRUE]]

\* The index tuples of length k with component j drawn from Comp(extent j).
IndexTuples(dataShape, k, Comp(_)) ==
  {t \in Tuples(k, (-1)..MaxDim) : \A j \in 1..k : t[j] \in Comp(dataShape[j])}

OuterShapes == {<<n>> : n \in 0..MaxSlices} \cup {<<1, MaxSlices>>}

ValidComp(d) == 0..(d - 1)
AnyComp(d) == (-1)..d

\* The value whose type the replacing constant gets: scatterNdOp.getData().
ScatterNDReplacingTypeOfUpdates(o) == TensorType(o.updatesShape, o.elemType)

ScatterNDReplacingType(o) == TensorType(o.dataShape, o.elemType)

\* ConstPropScatterNDPattern::matchAndRewrite on dense constant operands.
FoldScatterND(o) ==
  LET st == ScatterNDImpl(o)
      cs == count(counters, "Scatter",
                  <<Len(o.data), Len(o.indices), Len(o.updates)>>)
  IN /\ counters' = cs
     /\ trace' = [kind |-> "ScatterND", out |-> st.out, oob |-> st.oob]
     /\ \/ /\ pc' = "folded"
           /\ created' = <<createReplacingConstantOp(ScatterNDReplacingType(o),
                              Elements(TensorType(o.dataShape, o.elemType), st.out))>>
        \/ /\ st.oob
           /\ pc' = "crashed"
           /\ created' = <<>>
     /\ UNCHANGED <<op, diags, passState, func, sink, threads>>

ConstPropScatterNDPattern ==
  /\ pc = "offered"
  /\ op.kind = "ScatterND"
  /\ IF \/ ~op.resultIsRanked
        \/ ~op.isConstant.data
        \/ ~op.isConstant.indices
        \/ ~op.isConstant.updates
       THEN /\ pc' = "declined"
            /\ UNCHANGED <<op, created, trace, counters, diags, passState,
                           func, sink, threads>>
       ELSE FoldScatterND(op)

InitRest ==
  /\ pc = "offered"
  /\ created = <<>>
  /\ trace = NoTrace
  /\ counters = NoCounters
  /\ diags = 0
  /\ passState = "running"
  /\ func = <<>>
  /\ sink = <<>>
  /\ threads = <<>>

InitScatterNDWith(Dims, Comp(_)) ==
  /\ \E dataShape \in ShapesOf(1, MaxRank, Dims) :
       \E k \in 0..Len(dataShape) :
         \E outer \in OuterShapes :
           \E ts \in Tuples(NumElements(outer), IndexTuples(dataShape, k, Comp)) :
             op = ScatterNDOp(dataShape, k, outer, ts)
  /\ InitRest

InitScatterND == InitScatterNDWith(0..MaxDim, ValidComp)

NextScatterND == ConstPropScatterNDPattern

SpecScatterND == InitScatterND /\ [][NextScatterND]_vars

(***************************************************************************)
(* C1: after a ScatterND fold with every index tuple in range, the output  *)
(* holds data at every position no tuple addresses, and at an addressed    *)
(* position the element of the updates slab of the last tuple (in          *)
(* row-major order of indices) that addresses it.                          *)
(***************************************************************************)
ScatterNDExpected(o, p) ==
  LET k    == o.indicesShape[Len(o.indicesShape)]
      n    == Len(o.tuples)
      hits == {i \in 1..n : o.tuples[i] = SubSeq(p, 1, k)}
      rest == SubSeq(p, k + 1, Len(p))
      restShape == DropFront(o.dataShape, k)
  IN IF hits = {} THEN o.data[RowMajor(p, o.dataShape) + 1]
     ELSE LET last == CHOOSE i \in hits : \A j \in hits : j <= i
          IN o.updates[(last - 1) * NumElements(restShape)
                       + RowMajor(rest, restShape) + 1]

C1_ScatterNDLastWins ==
  (pc # "offered" /\ op.kind = "ScatterND"
     /\ \A i \in 1..Len(op.tuples) : InRange(op.tuples[i], op.dataShape))
  => /\ pc = "folded"
     /\ ~trace.oob
     /\ Len(created) = 1
     /\ Len(created[1].elems) = NumElements(op.dataShape)
     /\ \A p \in MultiIndices(op.dataShape) :
          created[1].elems[RowMajor(p, op.dataShape) + 1] = ScatterNDExpected(op, p)

\* A fold in which two index tuples collide and a third position is untouched.
C1_Witness ==
  /\ pc = "folded" /\ op.kind = "ScatterND"
  /\ \E i, j \in 1..Len(op.tuples) : i < j /\ op.tuples[i] = op.tuples[j]
  /\ \E p \in 1..Len(op.data) : created[1].elems[p] = op.data[p]
  /\ \E p \in 1..Len(op.data) : created[1].elems[p] # op.data[p]

(***************************************************************************)
(* Gather.                                                                 *)
(***************************************************************************)
\* The result type shape inference gives Gather: the axis extent of the
\* input replaced by the shape of indices.
GatherResultShape(inputShape, indicesShape, axis) ==
  TakeFront(inputShape, axis) \o indicesShape \o DropFront(inputShape, axis + 1)

GatherOp(inputShape, axisAttr, indicesShape, indices) ==
  LET rank == Len(inputShape)
      axis == IF axisAttr < 0 THEN axisAttr + rank ELSE axisAttr
  IN [kind         |-> "Gather",
      inputShape   |-> inputShape,
      input        |-> Iota(NumElements(inputShape), 0),
      axisAttr     |-> axisAttr,
      indicesShape |-> indicesShape,
      indices      |-> indices,
      elemType     |-> "i64",
      outputShape  |-> GatherResultShape(inputShape, indicesShape, axis)]

GatherIndicesShapes ==
  {<<>>} \cup {<<n>> : n \in 0..MaxSlices} \cup {<<1, MaxSlices>>}

\* int64_t axis = gatherOp.getAxis(); if (axis < 0) axis += rank;
GatherAxis(o) ==
  IF o.axisAttr < 0 THEN o.axisAttr + Len(o.inputShape) ELSE o.axisAttr

GatherAdjustedIdxNotNormalised(idx, axisSize) == idx

\* int64_t adjustedIdx = idx < 0 ? idx + axisSize : idx;
GatherAdjustedIdx(idx, axisSize) == IF idx < 0 THEN idx + axisSize ELSE idx

\* for (offset = start; offset < outputData.size(); offset += outputStride)
RECURSIVE GatherCopyLoop(_, _, _, _, _, _, _)
GatherCopyLoop(offset, in, st, input, len, inputStride, outputStride) ==
  IF offset >= Len(st.out) THEN st
  ELSE GatherCopyLoop(offset + outputStride, in + inputStride,
                      CopyN(st, input, in, len, offset),
                      input, len, inputStride, outputStride)

\* for (int64_t idx : indicesData.get())
RECURSIVE GatherIdxLoop(_, _, _, _, _, _, _)
GatherIdxLoop(i, start, st, o, axisSize, len, strides) ==
  IF i > Len(o.indices) THEN st
  ELSE
    LET adjustedIdx == GatherAdjustedIdx(o.indices[i], axisSize)
    IN GatherIdxLoop(i + 1, start + len,
         GatherCopyLoop(start, adjustedIdx * len, st, o.input, len,
                        strides.input, strides.output),
         o, axisSize, len, strides)

\* ConstPropGatherImpl with the quotient len = inputStride / axisSize given:
\* the buffer state after the loops, and whether the assert held.
ConstPropGatherImpl(o, axis, len) ==
  LET axisSize     == o.inputShape[axis + 1]
      inputStride  == NumElements(DropFront(o.inputShape, axis))
      outputStride == NumElements(DropFront(o.outputShape, axis))
      asserted     == outputStride = Len(o.indices) * len
      st0          == FreshBuffer(NumElements(o.outputShape))
  IN IF ~asserted THEN [st |-> st0, asserted |-> FALSE]
     ELSE [st |-> GatherIdxLoop(1, 0, st0, o, axisSize, len,
                                [input |-> inputStride, output |-> outputStride]),
           asserted |-> TRUE]

\* ConstPropGather.  Dividing by an axis extent of zero is undefined: the
\* division traps, or yields 0 where the hardware defines it so.
ConstPropGather ==
  /\ pc = "offered"
  /\ op.kind = "Gather"
  /\ LET axis        == GatherAxis(op)
         axisSize    == op.inputShape[axis + 1]
         inputStride == NumElements(DropFront(op.inputShape, axis))
         len         == IF axisSize = 0 THEN 0 ELSE inputStride \div axisSize
         r           == ConstPropGatherImpl(op, axis, len)
     IN /\ counters' = count(counters, "Gather", <<Len(op.input), Len(op.indices)>>)
        /\ \/ /\ axisSize = 0
              /\ pc' = "crashed"
              /\ created' = <<>>
              /\ trace' = [kind |-> "Gather", out |-> <<>>, writes |-> <<>>,
                           oob |-> FALSE]
           \/ /\ ~r.asserted
              /\ pc' = "aborted"
              /\ created' = <<>>
              /\ trace' = [kind |-> "Gather", out |-> r.st.out,
                           writes |-> r.st.writes, oob |-> r.st.oob]
           \/ /\ r.asserted
              /\ trace' = [kind |-> "Gather", out |-> r.st.out,
                           writes |-> r.st.writes, oob |-> r.st.oob]
              /\ \/ /\ pc' = "folded"
                    /\ created' = <<createReplacingConstantOp(
                                       TensorType(op.outputShape, op.elemType),
                                       Elements(TensorType(op.outputShape, op.elemType),
                                                r.st.out))>>
                 \/ /\ r.st.oob
                    /\ pc' = "crashed"
                    /\ created' = <<>>
  /\ UNCHANGED <<op, diags, passState, func, sink, threads>>

GatherValidIdx(d) == (-d)..(d - 1)
GatherAnyIdx(d) == (-d - 1)..d

InitGatherWith(Dims, Idx(_)) ==
  /\ \E inputShape \in ShapesOf(1, MaxRank, Dims) :
       \E axisAttr \in (-Len(inputShape))..(Len(inputShape) - 1) :
         \E indicesShape \in GatherIndicesShapes :
           LET axis == IF axisAttr < 0 THEN axisAttr + Len(inputShape) ELSE axisAttr
           IN \E indices \in Tuples(NumElements(indicesShape), Idx(inputShape[axis + 1])) :
                op = GatherOp(inputShape, axisAttr, indicesShape, indices)
  /\ InitRest

InitGather == InitGatherWith(0..MaxDim, GatherValidIdx)

NextGather == ConstPropGather

SpecGather == InitGather /\ [][NextGather]_vars

(***************************************************************************)
(* C2: after a Gather fold whose indices i all satisfy                     *)
(* -axisSize <= i < axisSize, the output element at (outer, j, inner) is   *)
(* input[outer, n(indices[j]), inner] with n(i) = i + axisSize for i < 0   *)
(* and i otherwise, and every output element was written exactly once.     *)
(***************************************************************************)
GatherIndicesValid(o) ==
  LET axisSize == o.inputShape[GatherAxis(o) + 1]
  IN \A i \in 1..Len(o.indices) : -axisSize <= o.indices[i] /\ o.indices[i] < axisSize

GatherExpected(o, q) ==
  LET axis     == GatherAxis(o)
      axisSize == o.inputShape[axis + 1]
      ir       == Len(o.indicesShape)
      outer    == SubSeq(q, 1, axis)
      j        == SubSeq(q, axis + 1, axis + ir)
      inner    == SubSeq(q, axis + ir + 1, Len(q))
      i        == o.indices[RowMajor(j, o.indicesShape) + 1]
      n        == IF i < 0 THEN i + axisSize ELSE i
  IN o.input[RowMajor(outer \o <<n>> \o inner, o.inputShape) + 1]

C2_GatherElements ==
  (pc # "offered" /\ op.kind = "Gather" /\ GatherIndicesValid(op))
  => /\ ~trace.oob
     /\ pc = "folded" \/ (pc = "crashed" /\ op.inputShape[GatherAxis(op) + 1] = 0)
     /\ pc = "folded" =>
          /\ Len(created) = 1
          /\ Len(created[1].elems) = NumElements(op.outputShape)
          /\ \A q \in MultiIndices(op.outputShape) :
               LET p == RowMajor(q, op.outputShape) + 1
               IN /\ created[1].elems[p] = GatherExpected(op, q)
                  /\ trace.writes[p] = 1

\* A fold along an inner axis with a negative index and outer extent above 1.
C2_Witness ==
  /\ pc = "folded" /\ op.kind = "Gather"
  /\ \E i \in 1..Len(op.indices) : op.indices[i] < 0
  /\ \E i \in 1..Len(op.indices) : op.indices[i] > 0
  /\ GatherAxis(op) = 1 /\ op.axisAttr < 0
  /\ op.inputShape[1] > 1
  /\ Len(created[1].elems) > 2

(***************************************************************************)
(* Gather and ScatterND with indices in and out of range.                  *)
(***************************************************************************)
InitIndexAny ==
  \/ InitGatherWith(1..MaxDim, GatherAnyIdx)
  \/ InitScatterNDWith(1..MaxDim, AnyComp)

NextIndexAny ==
  \/ ConstPropGather
  \/ ConstPropScatterNDPattern

SpecIndexAny == InitIndexAny /\ [][NextIndexAny]_vars

IndexOutOfRange(o) ==
  IF o.kind = "Gather" THEN ~GatherIndicesValid(o)
  ELSE \E i \in 1..Len(o.tuples) : ~InRange(o.tuples[i], o.dataShape)

(***************************************************************************)
(* C9: a Gather or ScatterND fold with an index out of range ends in an    *)
(* error (a diagnostic, no constant) and never reads or writes outside a   *)
(* buffer.                                                                 *)
(***************************************************************************)
C9_OutOfRangeIsError ==
  (pc # "offered" /\ IndexOutOfRange(op))
  => /\ diags > 0
     /\ created = <<>>
     /\ ~trace.oob

(***************************************************************************)
(* Slice.                                                                  *)
(***************************************************************************)
CeilDiv(a, b) == (a + b - 1) \div b

SizeTMod == 2 ^ SizeTBits

ToSizeTSaturating(x) == IF x < 0 THEN 0 ELSE x % SizeTMod

\* Conversion of a (possibly negative) int64_t to size_t.
ToSizeT(x) == x % SizeTMod

\* The normalised (start, step, output extent) triples the shape helper can
\* give one axis of extent dim: start in [0, dim] for a positive step and in
\* [0, dim - 1] for a negative one, every read start + i * step inside.
SliceAxisParams(dim) ==
  UNION {UNION {{<<start, step, n>> : n \in 0..CeilDiv(dim - start, step)}
                : start \in 0..dim}
         : step \in 1..MaxStep}
  \cup UNION {UNION {{<<start, -step, n>> : n \in 0..CeilDiv(start + 1, step)}
                     : start \in 0..(dim - 1)}
              : step \in 1..MaxStep}
  \cup {<<0, -step, 0>> : step \in 1..MaxStep}

\* ONNXSliceOpShapeHelper::computeShape fails on a step of zero.
SliceShapeHelperFails(o) == \E a \in 1..Len(o.steps) : o.steps[a] = 0

\* The sequences that take element a from choices[a].
RECURSIVE SliceParams(_, _)
SliceParams(choices, a) ==
  IF a > Len(choices) THEN {<<>>}
  ELSE {<<q>> \o t : q \in choices[a], t \in SliceParams(choices, a + 1)}

SliceOp(inputShape, ps) ==
  [kind        |-> "Slice",
   inputShape  |-> inputShape,
   input       |-> Iota(NumElements(inputShape), 0),
   starts      |-> [a \in 1..Len(ps) |-> ps[a][1]],
   steps       |-> [a \in 1..Len(ps) |-> ps[a][2]],
   elemType    |-> "i64",
   outputShape |-> [a \in 1..Len(ps) |-> ps[a][3]]]

\* for (axis < rank) { start += starts[axis] * inputStrides[axis];
\*                     steps[axis] = steps[axis] * inputStrides[axis]; }
RECURSIVE SliceStart(_, _, _)
SliceStart(o, inputStrides, axis) ==
  IF axis > Len(o.outputShape) THEN 0
  ELSE ToSizeT(ToSizeT(o.starts[axis] * inputStrides[axis])
               + SliceStart(o, inputStrides, axis + 1))

SliceSteps(o, inputStrides) ==
  [axis \in 1..Len(o.outputShape) |-> ToSizeT(o.steps[axis] * inputStrides[axis])]

\* The traverse lambda; axes are 1-based here, so axis = rank + 1 is the leaf.
RECURSIVE traverse(_, _, _, _, _, _)
RECURSIVE traverseLoop(_, _, _, _, _, _, _)
traverse(axis, srcPos, dstPos, st, o, c) ==
  IF axis = Len(o.outputShape) + 1
    THEN CopyN(st, o.input, srcPos, 1, dstPos)
    ELSE traverseLoop(0, axis, srcPos, dstPos, st, o, c)

traverseLoop(i, axis, srcPos, dstPos, st, o, c) ==
  IF i >= o.outputShape[axis] THEN st
  ELSE traverseLoop(i + 1, axis,
                    ToSizeT(srcPos + c.steps[axis]),
                    dstPos + c.outputStrides[axis],
                    traverse(axis + 1, srcPos, dstPos, st, o, c),
                    o, c)

ConstPropSliceImpl(o) ==
  LET outputStrides == getStrides(o.outputShape)
      inputStrides  == getStrides(o.inputShape)
      start         == SliceStart(o, inputStrides, 1)
      steps         == SliceSteps(o, inputStrides)
  IN traverse(1, start, 0, FreshBuffer(NumElements(o.outputShape)), o,
              [steps |-> steps, outputStrides |-> outputStrides])

\* The Slice pattern: ConstPropSlice, and the replacement of the op by the
\* value it returns.  On a shape helper failure that value is null.
ConstPropSlice ==
  /\ pc = "offered"
  /\ op.kind = "Slice"
  /\ counters' = count(counters, "Slice", <<Len(op.input)>>)
  /\ IF SliceShapeHelperFails(op)
       THEN /\ diags' = diags + 1
            /\ pc' = "replaced_by_null"
            /\ created' = <<>>
            /\ trace' = [kind |-> "Slice", out |-> <<>>, writes |-> <<>>,
                         oob |-> FALSE]
       ELSE LET st == ConstPropSliceImpl(op)
            IN /\ diags' = diags
               /\ trace' = [kind |-> "Slice", out |-> st.out,
                            writes |-> st.writes, oob |-> st.oob]
               /\ \/ /\ pc' = "folded"
                     /\ created' = <<createReplacingConstantOp(
                                        TensorType(op.outputShape, op.elemType),
                                        Elements(TensorType(op.outputShape, op.elemType),
                                                 st.out))>>
                  \/ /\ st.oob
                     /\ pc' = "crashed"
                     /\ created' = <<>>
  /\ UNCHANGED <<op, passState, func, sink, threads>>

InitSliceWith(Dims, Params(_)) ==
  /\ \E inputShape \in ShapesOf(1, MaxRank, Dims) :
       \E free \in {A \in SUBSET (1..Len(inputShape)) : Cardinality(A) <= 2} :
         \E ps \in SliceParams([a \in 1..Len(inputShape) |->
                                   IF a \in free THEN Params(inputShape[a])
                                   ELSE {<<0, 1, inputShape[a]>>}], 1) :
           op = SliceOp(inputShape, ps)
  /\ InitRest

InitSlice == InitSliceWith(0..MaxDim, SliceAxisParams)

NextSlice == ConstPropSlice

SpecSlice == InitSlice /\ [][NextSlice]_vars

(***************************************************************************)
(* C3: after a Slice fold with normalised starts and non-zero steps, the   *)
(* output element at multi-index i is the input element at multi-index     *)
(* starts[a] + i[a] * steps[a], and every source position computed in      *)
(* wrapping size_t arithmetic lies inside the input buffer.                *)
(***************************************************************************)
C3_SliceElements ==
  (pc # "offered" /\ op.kind = "Slice" /\ ~SliceShapeHelperFails(op))
  => /\ pc = "folded"
     /\ ~trace.oob
     /\ Len(created) = 1
     /\ Len(created[1].elems) = NumElements(op.outputShape)
     /\ \A i \in MultiIndices(op.outputShape) :
          LET src == [a \in 1..Len(i) |-> op.starts[a] + i[a] * op.steps[a]]
              p   == RowMajor(i, op.outputShape) + 1
          IN /\ InRange(src, op.inputShape)
             /\ created[1].elems[p] = op.input[RowMajor(src, op.inputShape) + 1]
             /\ trace.writes[p] = 1

\* A fold with a negative step on the outer axis of a rank-2 input, reading
\* more than one row.
C3_Witness ==
  /\ pc = "folded" /\ op.kind = "Slice"
  /\ Len(op.inputShape) = 2
  /\ op.steps[1] < 0 /\ op.outputShape[1] > 1
  /\ op.outputShape[2] > 0 /\ op.starts[2] > 0

(***************************************************************************)
(* The pass around one pattern application.                                *)
(***************************************************************************)
\* applyPatternsAndFoldGreedily fails only when rewrites remain after its
\* last iteration; once the one op's pattern has run, none does.
GreedyDriverConverged == pc # "offered"

\* ConstPropONNXToONNXPass::runOnOperation after the driver returns, for
\* either value of the report option.  An op replaced by a null value
\* leaves null operands behind: the driver may crash on them, or finish.
RunOnOperationEnd ==
  /\ passState = "running"
  /\ pc \in {"folded", "declined", "replaced_by_null"}
  /\ \/ /\ passState' = IF GreedyDriverConverged THEN "succeeded" ELSE "failed"
        /\ \E report \in BOOLEAN :
             sink' = IF report THEN Append(sink, dump(counters)) ELSE sink
     \/ /\ pc = "replaced_by_null"
        /\ passState' = "crashed"
        /\ sink' = sink
  /\ UNCHANGED <<op, pc, created, trace, counters, diags, func, threads>>

SliceAxisParamsAny(dim) == SliceAxisParams(dim) \cup {<<0, 0, 0>>}

InitSlicePass == InitSliceWith(1..MaxDim, SliceAxisParamsAny)

NextSlicePass ==
  \/ ConstPropSlice
  \/ RunOnOperationEnd

SpecSlicePass == InitSlicePass /\ [][NextSlicePass]_vars

(***************************************************************************)
(* C10: when the shape helper rejects the Slice parameters, the fold emits *)
(* an error diagnostic, creates no constant, and the pass ends failed.     *)
(***************************************************************************)
C10_SliceRejectionFailsPass ==
  (op.kind = "Slice" /\ SliceShapeHelperFails(op) /\ passState # "running")
  => /\ diags > 0
     /\ created = <<>>
     /\ passState = "failed"

(***************************************************************************)
(* Concat.                                                                 *)
(***************************************************************************)
\* The result type shape inference gives Concat: the extent on the axis is
\* the sum of the inputs' extents there.
ConcatResultShape(inputShapes, axis) ==
  [a \in 1..Len(inputShapes[1]) |->
     IF a = axis + 1
       THEN SeqSum([k \in 1..Len(inputShapes) |-> inputShapes[k][a]])
       ELSE inputShapes[1][a]]

ConcatOp(baseShape, axisAttr, extents) ==
  LET rank == Len(baseShape)
      axis == IF axisAttr < 0 THEN axisAttr + rank ELSE axisAttr
      inputShapes == [k \in 1..Len(extents) |->
                        [baseShape EXCEPT ![axis + 1] = extents[k]]]
  IN [kind        |-> "Concat",
      inputShapes |-> inputShapes,
      inputs      |-> [k \in 1..Len(extents) |->
                         Iota(NumElements(inputShapes[k]), 100 * k)],
      axisAttr    |-> axisAttr,
      elemType    |-> "i64",
      outputShape |-> ConcatResultShape(inputShapes, axis)]

\* int64_t axis = axisAttr...; if (axis < 0) axis += outputType.getRank();
ConcatAxis(o) ==
  IF o.axisAttr < 0 THEN o.axisAttr + Len(o.outputShape) ELSE o.axisAttr

ConcatNextStartStuck(start, len) == start

\* start += len;
ConcatNextStart(start, len) == start + len

\* for (offset = start; offset < outputData.size(); offset += stride)
RECURSIVE ConcatCopyLoop(_, _, _, _, _, _)
ConcatCopyLoop(offset, in, st, input, len, stride) ==
  IF offset >= Len(st.out) THEN [st |-> st, in |-> in]
  ELSE ConcatCopyLoop(offset + stride, in + len,
                      CopyN(st, input, in, len, offset), input, len, stride)

\* for (ElementsAttr input : inputElements); asserted records the assert
\* that every input was consumed exactly.
RECURSIVE ConcatInputLoop(_, _, _, _, _, _)
ConcatInputLoop(k, start, st, o, axis, stride) ==
  IF k > Len(o.inputs) THEN [st |-> st, asserted |-> TRUE]
  ELSE
    LET len == NumElements(DropFront(o.inputShapes[k], axis))
        r   == ConcatCopyLoop(start, 0, st, o.inputs[k], len, stride)
    IN IF r.in # Len(o.inputs[k]) THEN [st |-> r.st, asserted |-> FALSE]
       ELSE ConcatInputLoop(k + 1, ConcatNextStart(start, len), r.st, o, axis, stride)

ConstPropConcatImpl(o, axis) ==
  LET stride == NumElements(DropFront(o.outputShape, axis))
  IN ConcatInputLoop(1, 0, FreshBuffer(NumElements(o.outputShape)), o, axis, stride)

ConstPropConcat ==
  /\ pc = "offered"
  /\ op.kind = "Concat"
  /\ LET r == ConstPropConcatImpl(op, ConcatAxis(op))
     IN /\ counters' = count(counters, "Concat",
                             [k \in 1..Len(op.inputs) |-> Len(op.inputs[k])])
        /\ trace' = [kind |-> "Concat", out |-> r.st.out,
                     writes |-> r.st.writes, oob |-> r.st.oob]
        /\ \/ /\ ~r.asserted
              /\ pc' = "aborted"
              /\ created' = <<>>
           \/ /\ r.asserted
              /\ pc' = "folded"
              /\ created' = <<createReplacingConstantOp(
                                 TensorType(op.outputShape, op.elemType),
                                 Elements(TensorType(op.outputShape, op.elemType),
                                          r.st.out))>>
           \/ /\ r.asserted /\ r.st.oob
              /\ pc' = "crashed"
              /\ created' = <<>>
  /\ UNCHANGED <<op, diags, passState, func, sink, threads>>

InitConcat ==
  /\ \E baseShape \in ShapesOf(1, MaxRank, 0..MaxDim) :
       \E axisAttr \in (-Len(baseShape))..(Len(baseShape) - 1) :
         \E n \in 1..MaxInputs :
           \E extents \in Tuples(n, 0..MaxDim) :
             op = ConcatOp(baseShape, axisAttr, extents)
  /\ InitRest

NextConcat == ConstPropConcat

SpecConcat == InitConcat /\ [][NextConcat]_vars

(***************************************************************************)
(* C4: after a Concat fold of inputs that share rank and non-axis extents  *)
(* (the axis possibly negative), the output extent on the axis is the sum  *)
(* of the inputs' extents, every output element was written exactly once,  *)
(* and the output is the inputs laid one after another along the axis in   *)
(* operand order.                                                          *)
(***************************************************************************)
\* The operand that holds coordinate c of the axis, and c's offset in it.
RECURSIVE ConcatLocate(_, _, _, _)
ConcatLocate(o, a, k, c) ==
  IF c < o.inputShapes[k][a] THEN [k |-> k, c |-> c]
  ELSE ConcatLocate(o, a, k + 1, c - o.inputShapes[k][a])

C4_ConcatLayout ==
  (pc # "offered" /\ op.kind = "Concat")
  => LET a == (IF op.axisAttr < 0 THEN op.axisAttr + Len(op.outputShape)
               ELSE op.axisAttr) + 1
     IN /\ pc = "folded"
        /\ ~trace.oob
        /\ Len(created) = 1
        /\ created[1].shape[a]
             = SeqSum([k \in 1..Len(op.inputs) |-> op.inputShapes[k][a]])
        /\ Len(created[1].elems) = NumElements(created[1].shape)
        /\ \A q \in MultiIndices(created[1].shape) :
             LET p   == RowMajor(q, created[1].shape) + 1
                 loc == ConcatLocate(op, a, 1, q[a])
                 src == [q EXCEPT ![a] = loc.c]
             IN /\ created[1].elems[p]
                     = op.inputs[loc.k][RowMajor(src, op.inputShapes[loc.k]) + 1]
                /\ trace.writes[p] = 1

\* A fold of two non-empty inputs of different extents along an inner axis
\* given as a negative number, under an outer extent above 1.
C4_Witness ==
  /\ pc = "folded" /\ op.kind = "Concat"
  /\ Len(op.inputs) >= 2
  /\ op.axisAttr = -1 /\ Len(op.outputShape) = 2
  /\ op.outputShape[1] > 1
  /\ op.inputShapes[1][2] > op.inputShapes[2][2]
  /\ op.inputShapes[2][2] > 0

(***************************************************************************)
(* Reduce.  Axes are 0-based as in the source; reduceOp names the template *)
(* argument: "Sum" (ONNXAddOp), "Prod" (ONNXMulOp), "Min", "Max", "Mean".  *)
(* An optional attribute is the set of its values: {} when it is not set.  *)
(***************************************************************************)
\* getSIntAttr(op, attrName, deflt)
getSIntAttr(attr, deflt) == IF attr = {} THEN deflt ELSE CHOOSE v \in attr : TRUE

\* The entries of seq whose 0-based position is not in axes.
RECURSIVE DropAxes(_, _, _)
DropAxes(seq, axes, a) ==
  IF a > Len(seq) THEN <<>>
  ELSE (IF (a - 1) \in axes THEN <<>> ELSE <<seq[a]>>) \o DropAxes(seq, axes, a + 1)

\* The shape of a reduction over the axes set: a reduced axis has extent 1
\* (keepdims) or is removed.
ReducedShape(shape, axes, keepdims) ==
  IF keepdims THEN [a \in 1..Len(shape) |-> IF (a - 1) \in axes THEN 1 ELSE shape[a]]
  ELSE DropAxes(shape, axes, 1)

\* The output multi-index a data multi-index is reduced into.
ReducedIndex(p, axes, keepdims) ==
  IF keepdims THEN [a \in 1..Len(p) |-> IF (a - 1) \in axes THEN 0 ELSE p[a]]
  ELSE DropAxes(p, axes, 1)

SeqToSet(seq) == {seq[i] : i \in 1..Len(seq)}

\* The multi-index of a row-major position.
Unflatten(pos, shape) ==
  LET strides == getStrides(shape)
  IN [a \in 1..Len(shape) |-> (pos \div strides[a]) % shape[a]]

\* ElementWiseBinaryOpImpl<OP, T>::eval
Combine(reduceOp, lhs, rhs) ==
  CASE reduceOp = "Sum"  -> lhs + rhs
    [] reduceOp = "Prod" -> lhs * rhs
    [] reduceOp = "Min"  -> IF rhs < lhs THEN rhs ELSE lhs
    [] reduceOp = "Max"  -> IF lhs < rhs THEN rhs ELSE lhs

\* OnnxElementsAttrBuilder::reduce on non-empty data: a left fold of the
\* combiner over the collapsed axes in row-major order.
RECURSIVE BuilderReduceLoop(_, _, _, _, _, _, _, _)
BuilderReduceLoop(pos, acc, seen, data, shape, axes, keepdims, reduceOp) ==
  IF pos >= Len(data) THEN acc
  ELSE
    LET outShape == ReducedShape(shape, axes, keepdims)
        j == RowMajor(ReducedIndex(Unflatten(pos, shape), axes, keepdims), outShape) + 1
        v == IF j \in seen THEN Combine(reduceOp, acc[j], data[pos + 1])
             ELSE data[pos + 1]
    IN BuilderReduceLoop(pos + 1, [acc EXCEPT ![j] = v], seen \cup {j},
                         data, shape, axes, keepdims, reduceOp)

BuilderReduce(data, shape, absoluteAxes, keepdims, reduceOp) ==
  LET axes     == SeqToSet(absoluteAxes)
      outShape == ReducedShape(shape, axes, keepdims)
  IN [shape |-> outShape,
      elems |-> BuilderReduceLoop(0, [j \in 1..NumElements(outShape) |-> 0], {},
                                  data, shape, axes, keepdims, reduceOp)]

\* A normalisation that checks the range of each axis and nothing else.
ReduceAbsoluteAxesKeepingDuplicates(axes, rank, i, abs) ==
  [ok   |-> \A k \in 1..Len(axes) : -rank <= axes[k] /\ axes[k] < rank,
   axes |-> [k \in 1..Len(axes) |-> IF axes[k] < 0 THEN axes[k] + rank ELSE axes[k]]]

\* The loop that finds absoluteAxes; ok is false when an assert fails.
RECURSIVE ReduceAbsoluteAxes(_, _, _, _)
ReduceAbsoluteAxes(axes, rank, i, abs) ==
  IF i > Len(axes) THEN [ok |-> TRUE, axes |-> abs]
  ELSE
    LET a    == axes[i]
        axis == IF a < 0 THEN a + rank ELSE a
    IN IF ~(-rank <= a /\ a < rank) THEN [ok |-> FALSE, axes |-> abs]
       ELSE IF axis \in SeqToSet(abs) THEN [ok |-> FALSE, axes |-> abs]
       ELSE ReduceAbsoluteAxes(axes, rank, i + 1, Append(abs, axis))

ReduceAllAxesIfEmptyIgnoringNoop(abs, rank, noop) ==
  IF abs = <<>> THEN [a \in 1..rank |-> a - 1] ELSE abs

\* If axes are empty and !noop_with_empty_axes, reduce over all dimensions.
ReduceAllAxesIfEmpty(abs, rank, noop) ==
  IF abs = <<>> /\ getSIntAttr(noop, 0) = 0
    THEN [a \in 1..rank |-> a - 1]
    ELSE abs

getIdentityAlwaysZero(reduceOp, elemType) ==
  IF reduceOp \in {"Sum", "Prod"}
    THEN [defined |-> TRUE, attr |-> [elemType |-> elemType, value |-> 0]]
    ELSE [defined |-> FALSE]

\* getIdentity<ReduceOp>: defined is false where it is llvm_unreachable.
getIdentity(reduceOp, elemType) ==
  CASE reduceOp = "Sum"  -> [defined |-> TRUE,
                             attr |-> [elemType |-> elemType, value |-> 0]]
    [] reduceOp = "Prod" -> [defined |-> TRUE,
                             attr |-> [elemType |-> elemType, value |-> 1]]
    [] OTHER             -> [defined |-> FALSE]

\* x / denominator in the wide C++ type: integer division truncates.
divideBy(x, denominator) ==
  IF x >= 0 THEN x \div denominator ELSE -((-x) \div denominator)

ReduceMeanDenominatorIsSumSize(dataSize, sumSize) == sumSize

\* int64_t denominator = data.size() / sum.size();
ReduceMeanDenominator(dataSize, sumSize) == dataSize \div sumSize

\* ConstPropReduceAxesRange after the count: how it ends, the axes it used,
\* the branch it took and what it computed.
ConstPropReduceAxesRange(o) ==
  LET rank == Len(o.dataShape)
      n    == ReduceAbsoluteAxes(o.axes, rank, 1, <<>>)
      absoluteAxes == ReduceAllAxesIfEmpty(n.axes, rank, o.noop_with_empty_axes)
      none == [shape |-> <<>>, elems |-> <<>>]
  IN IF ~n.ok
       THEN [pc |-> "aborted", absoluteAxes |-> n.axes, path |-> "axes",
             denominator |-> 0, reduced |-> none]
     ELSE IF absoluteAxes = <<>>
       THEN [pc |-> "folded", absoluteAxes |-> absoluteAxes, path |-> "noop",
             denominator |-> 0,
             reduced |-> [shape |-> o.dataShape, elems |-> o.data]]
     ELSE IF o.data = <<>>
       THEN LET identity == getIdentity(o.reduceOp, o.elemType)
            IN IF identity.defined
                 THEN [pc |-> "folded", absoluteAxes |-> absoluteAxes,
                       path |-> "identity", denominator |-> 0,
                       reduced |-> [shape |-> o.outputShape,
                                    elems |-> [i \in 1..NumElements(o.outputShape)
                                                 |-> identity.attr]]]
                 ELSE [pc |-> "unreachable", absoluteAxes |-> absoluteAxes,
                       path |-> "identity", denominator |-> 0, reduced |-> none]
     ELSE
       LET keepdims == getSIntAttr(o.keepdims, 1) # 0
       IN IF o.reduceOp = "Mean"
            THEN LET sum == BuilderReduce(o.data, o.dataShape, absoluteAxes,
                                          keepdims, "Sum")
                     denominator == ReduceMeanDenominator(Len(o.data), Len(sum.elems))
                 IN IF Len(o.data) % Len(sum.elems) # 0
                      THEN [pc |-> "aborted", absoluteAxes |-> absoluteAxes,
                            path |-> "mean", denominator |-> 0, reduced |-> none]
                      ELSE [pc |-> "folded", absoluteAxes |-> absoluteAxes,
                            path |-> "mean", denominator |-> denominator,
                            reduced |-> [shape |-> sum.shape,
                                         elems |-> [j \in 1..Len(sum.elems) |->
                                                      divideBy(sum.elems[j], denominator)]]]
            ELSE [pc |-> "folded", absoluteAxes |-> absoluteAxes,
                  path |-> "reduce", denominator |-> 0,
                  reduced |-> BuilderReduce(o.data, o.dataShape, absoluteAxes,
                                            keepdims, o.reduceOp)]

ConstPropReduce ==
  /\ pc = "offered"
  /\ op.kind = "Reduce"
  /\ LET r == ConstPropReduceAxesRange(op)
     IN /\ counters' = count(counters, "Reduce", <<Len(op.data)>>)
        /\ pc' = r.pc
        /\ trace' = [kind |-> "Reduce", absoluteAxes |-> r.absoluteAxes,
                     path |-> r.path, denominator |-> r.denominator]
        /\ created' = IF r.pc = "folded"
                        THEN <<createReplacingConstantOp(
                                 TensorType(op.outputShape, op.elemType),
                                 Elements(TensorType(r.reduced.shape, op.elemType),
                                          r.reduced.elems))>>
                        ELSE <<>>
  /\ UNCHANGED <<op, diags, passState, func, sink, threads>>

\* The result type shape inference gives a reduction: the data's shape when
\* axes is empty and noop_with_empty_axes is set, the reduced shape
\* otherwise (over all axes when axes is empty).
ReduceResultShape(dataShape, axes, keepdims, noop) ==
  LET rank == Len(dataShape)
      abs  == {IF a < 0 THEN a + rank ELSE a : a \in SeqToSet(axes)}
      eff  == IF abs = {} /\ getSIntAttr(noop, 0) = 0 THEN 0..(rank - 1) ELSE abs
  IN ReducedShape(dataShape, eff, getSIntAttr(keepdims, 1) # 0)

ReduceOp(reduceOp, elemType, dataShape, axes, keepdims, noop) ==
  [kind        |-> "Reduce",
   reduceOp    |-> reduceOp,
   elemType    |-> elemType,
   dataShape   |-> dataShape,
   data        |-> [i \in 1..NumElements(dataShape) |-> ((2 * i) % 5) - 2],
   axes        |-> axes,
   keepdims    |-> keepdims,
   noop_with_empty_axes |-> noop,
   outputShape |-> ReduceResultShape(dataShape, axes, keepdims, noop)]

\* Float data is modelled only where no arithmetic on it happens (empty
\* data); noop_with_empty_axes is varied where it is read to effect.
InitReduce ==
  /\ \E dataShape \in ShapesOf(0, MaxRank, 0..MaxDim) :
       \E axes \in ShapesOf(0, Min2(2, Len(dataShape)),
                            (-Len(dataShape))..(Len(dataShape) - 1)) :
         \E reduceOp \in {"Sum", "Prod", "Min", "Max", "Mean"} :
           \E keepdims \in {{}, {0}, {1}} :
             \E noop \in (IF axes = <<>> THEN {{}, {0}, {1}} ELSE {{}}) :
               \E elemType \in (IF NumElements(dataShape) = 0 THEN {"i64", "f32"}
                                ELSE {"i64"}) :
                 op = ReduceOp(reduceOp, elemType, dataShape, axes, keepdims, noop)
  /\ InitRest

NextReduce == ConstPropReduce

SpecReduce == InitReduce /\ [][NextReduce]_vars

\* The axes of a reduction as the ONNX operator defines them, from the
\* operands and attributes alone.
ReduceAxesDistinct(o) ==
  \A i, j \in 1..Len(o.axes) :
    i # j => (o.axes[i] - o.axes[j]) % Len(o.dataShape) # 0

ReduceEffectiveAxes(o) ==
  LET rank == Len(o.dataShape)
  IN IF o.axes # <<>> THEN {a % rank : a \in SeqToSet(o.axes)}
     ELSE IF o.noop_with_empty_axes = {1} THEN {}
     ELSE 0..(rank - 1)

RECURSIVE SetSum(_, _)
SetSum(S, f) ==
  IF S = {} THEN 0
  ELSE LET x == CHOOSE x \in S : TRUE IN f[x] + SetSum(S \ {x}, f)

RECURSIVE SetProduct(_, _)
SetProduct(S, f) ==
  IF S = {} THEN 1
  ELSE LET x == CHOOSE x \in S : TRUE IN f[x] * SetProduct(S \ {x}, f)

(***************************************************************************)
(* C5: a Reduce fold with an empty (or absent) axes list reduces over all  *)
(* axes 0..rank-1 when noop_with_empty_axes is 0 or missing, and when it   *)
(* is 1 the result is the input data unchanged, for every reduce operator  *)
(* and whether or not the data is empty.                                   *)
(***************************************************************************)
C5_ReduceEmptyAxes ==
  (pc # "offered" /\ op.kind = "Reduce" /\ op.axes = <<>>)
  => IF op.noop_with_empty_axes = {1}
       THEN /\ pc = "folded"
            /\ trace.path = "noop"
            /\ created[1].elems = op.data
            /\ created[1].elemsShape = op.dataShape
       ELSE /\ trace.absoluteAxes = [a \in 1..Len(op.dataShape) |-> a - 1]
            /\ (op.data # <<>> /\ op.reduceOp = "Sum")
                 => /\ pc = "folded"
                    /\ Len(created[1].elems) = 1
                    /\ created[1].elems[1] = SeqSum(op.data)

\* A no-op fold by ReduceMin of empty rank-2 data.
C5_Witness ==
  /\ pc = "folded" /\ op.kind = "Reduce" /\ op.axes = <<>>
  /\ op.noop_with_empty_axes = {1} /\ op.reduceOp = "Min"
  /\ op.data = <<>> /\ Len(op.dataShape) = 2
  /\ created[1].elemsShape = op.dataShape

(***************************************************************************)
(* C6: a Reduce fold of data with zero elements and a non-empty effective  *)
(* axes set gives a constant filled with 0 for ReduceSum and with 1 for    *)
(* ReduceProd, of the data's element type; for ReduceMin, ReduceMax and    *)
(* ReduceMean it ends in an error and creates no constant.                 *)
(***************************************************************************)
C6_ReduceEmptyData ==
  (pc # "offered" /\ op.kind = "Reduce" /\ ReduceAxesDistinct(op)
     /\ op.data = <<>> /\ ReduceEffectiveAxes(op) # {})
  => IF op.reduceOp \in {"Sum", "Prod"}
       THEN /\ pc = "folded"
            /\ Len(created) = 1
            /\ Len(created[1].elems) = NumElements(op.outputShape)
            /\ \A i \in 1..Len(created[1].elems) :
                 created[1].elems[i]
                   = [elemType |-> op.elemType,
                      value |-> IF op.reduceOp = "Sum" THEN 0 ELSE 1]
       ELSE /\ pc = "unreachable"
            /\ created = <<>>

\* ReduceProd of empty float data into a non-empty result.
C6_Witness ==
  /\ pc = "folded" /\ op.kind = "Reduce" /\ op.reduceOp = "Prod"
  /\ op.data = <<>> /\ op.elemType = "f32"
  /\ Len(created[1].elems) > 1

(***************************************************************************)
(* C7: a ReduceMean fold of non-empty data over a non-empty effective axes *)
(* set divides by data.size() / sum.size(), which is the product of the    *)
(* extents of the reduced axes, and each output element is the sum over    *)
(* the reduced axes divided by it.                                         *)
(***************************************************************************)
C7_ReduceMean ==
  (pc # "offered" /\ op.kind = "Reduce" /\ op.reduceOp = "Mean"
     /\ ReduceAxesDistinct(op) /\ op.data # <<>> /\ ReduceEffectiveAxes(op) # {})
  => LET axes     == ReduceEffectiveAxes(op)
         extents  == SetProduct(axes, [a \in axes |-> op.dataShape[a + 1]])
         keepdims == op.keepdims # {0}
         outShape == ReducedShape(op.dataShape, axes, keepdims)
         value    == [p \in MultiIndices(op.dataShape) |->
                        op.data[RowMajor(p, op.dataShape) + 1]]
     IN /\ pc = "folded"
        /\ trace.denominator = extents
        /\ created[1].elemsShape = outShape
        /\ \A j \in MultiIndices(outShape) :
             LET cell == {p \in MultiIndices(op.dataShape) :
                            ReducedIndex(p, axes, keepdims) = j}
                 sum  == SetSum(cell, value)
                 mean == IF sum >= 0 THEN sum \div extents
                         ELSE -((-sum) \div extents)
             IN created[1].elems[RowMajor(j, outShape) + 1] = mean

\* A mean along the outer axis (given as a negative number) of a rank-2
\* tensor without keepdims, where a negative sum is truncated toward zero.
C7_Witness ==
  /\ pc = "folded" /\ op.kind = "Reduce" /\ op.reduceOp = "Mean"
  /\ Len(op.dataShape) = 2 /\ op.axes = <<-2>> /\ op.keepdims = {0}
  /\ op.dataShape[1] > 1 /\ op.dataShape[2] > 1
  /\ trace.denominator = op.dataShape[1]
  /\ op.dataShape = <<2, 2>>
  /\ op.data[1] + op.data[3] = -1
  /\ created[1].elems[1] = 0

(***************************************************************************)
(* Split.  An int64_t split size is the pair [hi, lo] that stands for      *)
(* hi * 2^32 + lo with lo small, which keeps the 32-bit width of the int   *)
(* accumulator exact; extents and counts are small plain integers.         *)
(***************************************************************************)
Int64(hi, lo) == [hi |-> hi, lo |-> lo]

\* static_cast<int>(acc + size): the low 32 bits of the sum.
AddToInt(acc, size) == acc + size.lo

\* std::accumulate(splitSizes.begin(), splitSizes.end(), 0): the
\* accumulator has the type of the initial value, int.
RECURSIVE AccumulateInt(_, _, _)
AccumulateInt(sizes, i, acc) ==
  IF i > Len(sizes) THEN acc
  ELSE AccumulateInt(sizes, i + 1, AddToInt(acc, sizes[i]))

\* OnnxElementsAttrBuilder::split for sizes that are extents and sum to the
\* axis extent: one contiguous slab along axis per size.
RECURSIVE BuilderSplit(_, _, _, _, _, _)
BuilderSplit(input, shape, axis, sizes, i, offset) ==
  IF i > Len(sizes) THEN <<>>
  ELSE
    LET slabShape == [shape EXCEPT ![axis + 1] = sizes[i].lo]
        at(q) == LET idx == Unflatten(q - 1, slabShape)
                 IN [idx EXCEPT ![axis + 1] = idx[axis + 1] + offset]
    IN <<[shape |-> slabShape,
          elemType |-> "i64",
          elems |-> [q \in 1..NumElements(slabShape) |->
                       input[RowMajor(at(q), shape) + 1]]]>>
       \o BuilderSplit(input, shape, axis, sizes, i + 1, offset + sizes[i].lo)

SplitSizesAreExtents(sizes, splitAxisSize) ==
  /\ \A i \in 1..Len(sizes) : sizes[i].hi = 0 /\ sizes[i].lo >= 0
  /\ SeqSum([i \in 1..Len(sizes) |-> sizes[i].lo]) = splitAxisSize

SplitTrace(called, splitAxis, splitSizes) ==
  [kind |-> "Split", splitCalled |-> called,
   splitAxis |-> splitAxis, splitSizes |-> splitSizes]

\* uint64_t splitAxis = splitOp.getAxis(): the signed attribute converted.
SplitAxisAsUInt64(o) == ToSizeT(o.axis)

\* ConstPropSplitPatternCommon.  A negative axis read as uint64_t indexes
\* inputShape out of bounds, which ArrayRef asserts.  Sizes that are not
\* extents summing to the axis extent break the precondition of the
\* builder's split: what it does with them is not determined.
ConstPropSplitPatternCommon(o, hasSplitAttr) ==
  IF ~o.inputIsConstant
    THEN /\ pc' = "declined"
         /\ trace' = SplitTrace(FALSE, o.axis, <<>>)
         /\ UNCHANGED <<created, counters>>
  ELSE
    /\ counters' = count(counters, "Split", <<Len(o.input)>>)
    /\ IF SplitAxisAsUInt64(o) >= Len(o.inputShape)
         THEN /\ pc' = "aborted"
              /\ trace' = SplitTrace(FALSE, SplitAxisAsUInt64(o), <<>>)
              /\ UNCHANGED created
       ELSE
         LET splitAxis     == SplitAxisAsUInt64(o)
             splitAxisSize == o.inputShape[splitAxis + 1]
             equal         == [i \in 1..o.numResults |->
                                 Int64(0, splitAxisSize \div o.numResults)]
             splitSizes    == IF hasSplitAttr
                                THEN [i \in 1..o.numResults |-> o.split[i]]
                                ELSE equal
             asserted      == IF hasSplitAttr
                                THEN splitAxisSize = AccumulateInt(splitSizes, 1, 0)
                                ELSE splitAxisSize % o.numResults = 0
         IN IF ~asserted
              THEN /\ pc' = "aborted"
                   /\ trace' = SplitTrace(FALSE, splitAxis, splitSizes)
                   /\ UNCHANGED created
            ELSE
              /\ trace' = SplitTrace(TRUE, splitAxis, splitSizes)
              /\ IF SplitSizesAreExtents(splitSizes, splitAxisSize)
                   THEN /\ pc' = "folded"
                        /\ created' =
                             LET resElements == BuilderSplit(o.input, o.inputShape,
                                                  splitAxis, splitSizes, 1, 0)
                             IN [i \in 1..o.numResults |->
                                   createReplacingConstantOp(
                                     TensorType(o.resultShapes[i], o.elemType),
                                     resElements[i])]
                   ELSE \/ /\ pc' = "crashed"
                           /\ UNCHANGED created
                        \/ /\ pc' = "folded"
                           /\ created' = [i \in 1..o.numResults |->
                                            createReplacingConstantOp(
                                              TensorType(o.resultShapes[i], o.elemType),
                                              Elements(TensorType(<<0>>, o.elemType), <<>>))]

\* ConstPropSplitPattern::matchAndRewrite: the split operand is looked at
\* before the input is.
ConstPropSplitPattern ==
  /\ pc = "offered"
  /\ op.kind = "Split"
  /\ IF op.splitKind = "dynamic"
       THEN /\ pc' = "unreachable"
            /\ trace' = SplitTrace(FALSE, op.axis, <<>>)
            /\ UNCHANGED <<created, counters>>
       ELSE ConstPropSplitPatternCommon(op, op.splitKind = "constant")
  /\ UNCHANGED <<op, diags, passState, func, sink, threads>>

\* ConstPropSplitV11Pattern::matchAndRewrite: split is an optional attribute.
ConstPropSplitV11Pattern ==
  /\ pc = "offered"
  /\ op.kind = "SplitV11"
  /\ ConstPropSplitPatternCommon(op, op.splitKind = "constant")
  /\ UNCHANGED <<op, diags, passState, func, sink, threads>>

\* The result types of a Split: the input's shape with the extent of the
\* (normalised) axis replaced by the result's size.
SplitResultShapes(inputShape, axis, numResults, splitKind, split) ==
  LET a == IF axis < 0 THEN axis + Len(inputShape) ELSE axis
  IN [i \in 1..numResults |->
        [inputShape EXCEPT ![a + 1] =
           IF splitKind = "constant" THEN split[i].lo
           ELSE inputShape[a + 1] \div numResults]]

SplitOp(inputShape, axis, numResults, splitKind, split, inputIsConstant) ==
  [kind            |-> "Split",
   elemType        |-> "i64",
   resultShapes    |-> SplitResultShapes(inputShape, axis, numResults,
                                         splitKind, split),
   inputShape      |-> inputShape,
   input           |-> Iota(NumElements(inputShape), 10),
   axis            |-> axis,
   numResults      |-> numResults,
   splitKind       |-> splitKind,
   split           |-> split,
   inputIsConstant |-> inputIsConstant]

\* The split operand: absent, not a constant, or a constant with one size
\* per result, the first of which may be beyond 32 bits.
SplitOperands(numResults) ==
  {<<"none", <<>>>>, <<"dynamic", <<>>>>}
    \cup {<<"constant", <<Int64(hi, t[1])>> \o [i \in 1..(numResults - 1) |-> Int64(0, t[i + 1])]>> :
            hi \in {0, 1}, t \in Tuples(numResults, 0..MaxDim)}

InitSplit ==
  /\ \E inputShape \in ShapesOf(1, MaxRank, 0..MaxDim) :
       \E axis \in (-Len(inputShape))..(Len(inputShape) - 1) :
         \E numResults \in 1..MaxResults :
           \E s \in SplitOperands(numResults) :
             \E inputIsConstant \in (IF s[1] = "none" THEN BOOLEAN ELSE {TRUE}) :
               op = SplitOp(inputShape, axis, numResults, s[1], s[2], inputIsConstant)
  /\ InitRest

NextSplit == ConstPropSplitPattern

SpecSplit == InitSplit /\ [][NextSplit]_vars

(***************************************************************************)
(* C8: whenever a Split fold gets as far as the builder's split, the sizes *)
(* it passes have one entry per result and their sum, as mathematical      *)
(* integers, is the input's extent on the split axis.                      *)
(***************************************************************************)
C8_SplitSizesSum ==
  (op.kind = "Split" /\ pc # "offered" /\ trace.splitCalled)
  => LET sizes == trace.splitSizes
     IN /\ Len(sizes) = op.numResults
        /\ SeqSum([i \in 1..Len(sizes) |-> sizes[i].hi]) = 0
        /\ SeqSum([i \in 1..Len(sizes) |-> sizes[i].lo])
             = op.inputShape[op.axis + 1]

(***************************************************************************)
(* The hand-written patterns offered operations whose operands may or may  *)
(* not be dense constants.                                                 *)
(***************************************************************************)
InitNoMatch ==
  /\ \/ \E inputShape \in ShapesOf(1, MaxRank, 1..MaxDim) :
          \E axis \in 0..(Len(inputShape) - 1) :
            \E numResults \in 1..MaxResults :
              \E s \in SplitOperands(numResults) :
                \E inputIsConstant \in BOOLEAN :
                  \E kind \in (IF s[1] = "dynamic" THEN {"Split"}
                                ELSE {"Split", "SplitV11"}) :
                    op = [SplitOp(inputShape, axis, numResults, s[1], s[2],
                                  inputIsConstant) EXCEPT !.kind = kind]
     \/ \E dataShape \in ShapesOf(1, 1, 1..MaxDim) :
          \E t \in IndexTuples(dataShape, 1, ValidComp) :
            \E c \in [{"data", "indices", "updates"} -> BOOLEAN] :
              \E r \in BOOLEAN :
                op = [ScatterNDOp(dataShape, 1, <<1>>, <<t>>)
                        EXCEPT !.isConstant = c, !.resultIsRanked = r]
  /\ InitRest

NextNoMatch ==
  \/ ConstPropSplitPattern
  \/ ConstPropSplitV11Pattern
  \/ ConstPropScatterNDPattern

SpecNoMatch == InitNoMatch /\ [][NextNoMatch]_vars

RelevantOperandNotConstant(o) ==
  IF o.kind = "ScatterND"
    THEN \E f \in DOMAIN o.isConstant : ~o.isConstant[f]
    ELSE ~o.inputIsConstant

(***************************************************************************)
(* C11: when the Split input, or the ScatterND data, indices or updates,   *)
(* is not a dense constant, the pattern declines (returns failure): it     *)
(* creates no op and reaches no abort, whatever the other operands are.    *)
(***************************************************************************)
C11_NonConstantIsNoMatch ==
  (pc # "offered" /\ RelevantOperandNotConstant(op))
  => /\ pc = "declined"
     /\ created = <<>>

(***************************************************************************)
(* Element-wise folds.  T is the wide C++ type the element type dispatches *)
(* to: "double", "int64_t", "uint64_t" or "bool".  Numbers are integers;   *)
(* uint64_t wraps at the modelled width of size_t; a quotient of doubles   *)
(* and an inexact square root stay symbolic.                               *)
(***************************************************************************)
WideTypes == {"double", "int64_t", "uint64_t", "bool"}

\* EnableNotBool<T>
EnableNotBool(T) == T # "bool"

Evaluated(v) == [defined |-> TRUE, ub |-> FALSE, value |-> v]

\* llvm_unreachable("unsupported op or type")
UnsupportedOpOrType == [defined |-> FALSE, ub |-> FALSE, value |-> 0]

WrapWide(T, v) == IF T = "uint64_t" THEN v % SizeTMod ELSE v

\* ElementWiseBinaryOpImpl<OP, T>::eval: the specialisation that matches,
\* else the primary template.  Integer division by zero is undefined.
ElementWiseBinaryOpImpl(OP, T, lhs, rhs) ==
  CASE OP = "Add" /\ EnableNotBool(T) -> Evaluated(WrapWide(T, lhs + rhs))
    [] OP = "Sub" /\ EnableNotBool(T) -> Evaluated(WrapWide(T, lhs - rhs))
    [] OP = "Mul" /\ EnableNotBool(T) -> Evaluated(WrapWide(T, lhs * rhs))
    [] OP = "Div" /\ EnableNotBool(T) ->
         IF T = "double" THEN Evaluated([quotient |-> <<lhs, rhs>>])
         ELSE IF rhs = 0 THEN [defined |-> TRUE, ub |-> TRUE, value |-> 0]
         ELSE Evaluated(divideBy(lhs, rhs))
    [] OP = "Min" ->
         IF T = "bool" THEN Evaluated(lhs /\ rhs)
         ELSE Evaluated(IF rhs < lhs THEN rhs ELSE lhs)
    [] OP = "Max" ->
         IF T = "bool" THEN Evaluated(lhs \/ rhs)
         ELSE Evaluated(IF lhs < rhs THEN rhs ELSE lhs)
    [] OTHER -> UnsupportedOpOrType

\* ElementWiseUnaryOpImpl<OP, T>::eval
ElementWiseUnaryOpImpl(OP, T, val) ==
  CASE OP = "Neg" /\ EnableNotBool(T)  -> Evaluated(WrapWide(T, -val))
    [] OP = "Sqrt" /\ T = "double"     ->
         IF val \in {0, 1} THEN Evaluated(val) ELSE Evaluated([sqrt |-> val])
    [] OP = "Relu" /\ EnableNotBool(T) -> Evaluated(IF val < 0 THEN 0 ELSE val)
    [] OTHER -> UnsupportedOpOrType

\* The element of an operand that is broadcast to position p of the result.
BroadcastIndex(p, shape) ==
  LET d == Len(p) - Len(shape)
  IN [a \in 1..Len(shape) |-> IF shape[a] = 1 THEN 0 ELSE p[a + d]]

\* The broadcast of two shapes (multi-directional, aligned from the right);
\* the operator's result type.
BroadcastShape(lhsShape, rhsShape) ==
  LET r  == IF Len(lhsShape) > Len(rhsShape) THEN Len(lhsShape) ELSE Len(rhsShape)
      at(shape, a) == IF a - (r - Len(shape)) >= 1
                        THEN shape[a - (r - Len(shape))] ELSE 1
  IN [a \in 1..r |-> IF at(lhsShape, a) = 1 THEN at(rhsShape, a)
                     ELSE at(lhsShape, a)]

BroadcastCompatible(lhsShape, rhsShape) ==
  LET out == BroadcastShape(lhsShape, rhsShape)
  IN /\ \A a \in 1..Len(lhsShape) :
          lhsShape[a] \in {1, out[a + Len(out) - Len(lhsShape)]}
     /\ \A a \in 1..Len(rhsShape) :
          rhsShape[a] \in {1, out[a + Len(out) - Len(rhsShape)]}

\* OnnxElementsAttrBuilder::combine: the combiner applied to the broadcast
\* operands, one call per element of the result.
BuilderCombine(o) ==
  [q \in 1..NumElements(o.outputShape) |->
     LET p == Unflatten(q - 1, o.outputShape)
     IN ElementWiseBinaryOpImpl(o.onnxOp, o.T,
          o.lhs[RowMajor(BroadcastIndex(p, o.lhsShape), o.lhsShape) + 1],
          o.rhs[RowMajor(BroadcastIndex(p, o.rhsShape), o.rhsShape) + 1])]

\* OnnxElementsAttrBuilder::transform: the function applied to every element.
BuilderTransform(o) ==
  [q \in 1..Len(o.input) |-> ElementWiseUnaryOpImpl(o.onnxOp, o.T, o.input[q])]

\* How a fold ends once its elements are evaluated: an unsupported
\* evaluator aborts; undefined arithmetic may trap or yield some value.
ElementwiseOutcome(evals, outputShape, T) ==
  LET n == Len(evals)
  IN IF \E q \in 1..n : ~evals[q].defined
       THEN /\ pc' = "unreachable"
            /\ created' = <<>>
     ELSE \/ /\ pc' = "folded"
             /\ created' = <<createReplacingConstantOp(
                                TensorType(outputShape, T),
                                Elements(TensorType(outputShape, T),
                                         [q \in 1..n |-> evals[q].value]))>>
          \/ /\ \E q \in 1..n : evals[q].ub
             /\ pc' = "crashed"
             /\ created' = <<>>

ConstPropElementwiseBinary ==
  /\ pc = "offered"
  /\ op.kind = "ElementwiseBinary"
  /\ counters' = count(counters, "ElementwiseBinary", <<Len(op.lhs), Len(op.rhs)>>)
  /\ trace' = [kind |-> "ElementwiseBinary",
               evalCalls |-> NumElements(op.outputShape)]
  /\ IF op.T # op.rhsT
       THEN /\ pc' = "aborted"
            /\ created' = <<>>
       ELSE ElementwiseOutcome(BuilderCombine(op), op.outputShape, op.T)
  /\ UNCHANGED <<op, diags, passState, func, sink, threads>>

ConstPropElementwiseUnary ==
  /\ pc = "offered"
  /\ op.kind = "ElementwiseUnary"
  /\ counters' = count(counters, "ElementwiseUnary", <<Len(op.input)>>)
  /\ trace' = [kind |-> "ElementwiseUnary", evalCalls |-> Len(op.input)]
  /\ IF op.T # op.outputT
       THEN /\ pc' = "aborted"
            /\ created' = <<>>
       ELSE ElementwiseOutcome(BuilderTransform(op), op.outputShape, op.T)
  /\ UNCHANGED <<op, diags, passState, func, sink, threads>>

\* n elements of wide type T.
ElemValues(T, n, seed) ==
  [i \in 1..n |-> CASE T = "bool"     -> (i + seed) % 2 = 0
                    [] T = "uint64_t" -> (i + seed) % 3
                    [] OTHER          -> ((i + seed) % 4) - 1]

ElementwiseBinaryOp(onnxOp, T, lhsShape, rhsShape) ==
  [kind        |-> "ElementwiseBinary",
   onnxOp      |-> onnxOp,
   T           |-> T,
   rhsT        |-> T,
   lhsShape    |-> lhsShape,
   lhs         |-> ElemValues(T, NumElements(lhsShape), 0),
   rhsShape    |-> rhsShape,
   rhs         |-> ElemValues(T, NumElements(rhsShape), 1),
   outputShape |-> BroadcastShape(lhsShape, rhsShape)]

ElementwiseUnaryOp(onnxOp, T, inputShape) ==
  [kind        |-> "ElementwiseUnary",
   onnxOp      |-> onnxOp,
   T           |-> T,
   outputT     |-> T,
   inputShape  |-> inputShape,
   input       |-> ElemValues(T, NumElements(inputShape), 0),
   outputShape |-> inputShape]

InitElementwise ==
  /\ \/ \E onnxOp \in {"Add", "Sub", "Mul", "Div", "Min", "Max"} :
          \E T \in WideTypes :
            \E lhsShape \in ShapesOf(0, MaxRank, 0..MaxDim) :
              \E rhsShape \in ShapesOf(0, MaxRank, 0..MaxDim) :
                /\ BroadcastCompatible(lhsShape, rhsShape)
                /\ op = ElementwiseBinaryOp(onnxOp, T, lhsShape, rhsShape)
     \/ \E onnxOp \in {"Neg", "Sqrt", "Relu"} :
          \E T \in WideTypes :
            \E inputShape \in ShapesOf(0, MaxRank, 0..MaxDim) :
              op = ElementwiseUnaryOp(onnxOp, T, inputShape)
  /\ InitRest

NextElementwise ==
  \/ ConstPropElementwiseBinary
  \/ ConstPropElementwiseUnary

SpecElementwise == InitElementwise /\ [][NextElementwise]_vars

(***************************************************************************)
(* C18: an element-wise fold that evaluates at least one element at the    *)
(* boolean type, or a Sqrt at a type outside the floating-point family,    *)
(* reaches the "unsupported op or type" abort and creates no constant.     *)
(***************************************************************************)
C18_UnsupportedTypeAborts ==
  (pc # "offered" /\ op.kind \in {"ElementwiseBinary", "ElementwiseUnary"}
     /\ trace.evalCalls > 0
     /\ (op.T = "bool" \/ (op.onnxOp = "Sqrt" /\ op.T # "double")))
  => /\ pc = "unreachable"
     /\ created = <<>>

(***************************************************************************)
(* Where, Transpose, Unsqueeze, Squeeze, Reshape, Cast and Expand: the     *)
(* fold counts, has the builder compute the elements and wraps them in a   *)
(* constant of the result type.                                            *)
(***************************************************************************)
\* OnnxElementsAttrBuilder::where: cond ? lhs : rhs with every operand
\* broadcast to the result type.
BuilderWhere(o) ==
  Elements(TensorType(o.outputShape, o.elemType),
    [q \in 1..NumElements(o.outputShape) |->
       LET p == Unflatten(q - 1, o.outputShape)
           at(buf, shape) == buf[RowMajor(BroadcastIndex(p, shape), shape) + 1]
       IN IF at(o.cond, o.condShape) THEN at(o.lhs, o.lhsShape)
          ELSE at(o.rhs, o.rhsShape)])

ConstPropWhere ==
  /\ pc = "offered"
  /\ op.kind = "Where"
  /\ counters' = count(counters, "Where", <<Len(op.cond), Len(op.lhs), Len(op.rhs)>>)
  /\ trace' = [kind |-> "Where"]
  /\ IF op.condType # "i1" \/ op.elemType # op.rhsType
       THEN /\ pc' = "aborted"
            /\ created' = <<>>
       ELSE /\ pc' = "folded"
            /\ created' = <<createReplacingConstantOp(
                              TensorType(op.outputShape, op.elemType),
                              BuilderWhere(op))>>
  /\ UNCHANGED <<op, diags, passState, func, sink, threads>>

\* OnnxElementsAttrBuilder::transpose: axis a of the result is axis perm[a]
\* of the input.
BuilderTranspose(input, inputShape, elemType, perm) ==
  LET shape == [a \in 1..Len(perm) |-> inputShape[perm[a] + 1]]
      src(p) == [b \in 1..Len(perm) |->
                   p[CHOOSE a \in 1..Len(perm) : perm[a] = b - 1]]
  IN Elements(TensorType(shape, elemType),
       [q \in 1..NumElements(shape) |->
          input[RowMajor(src(Unflatten(q - 1, shape)), inputShape) + 1]])

ConstPropTranspose ==
  /\ pc = "offered"
  /\ op.kind = "Transpose"
  /\ counters' = count(counters, "Transpose", <<Len(op.input)>>)
  /\ trace' = [kind |-> "Transpose"]
  /\ pc' = "folded"
  /\ created' = <<createReplacingConstantOp(
                    TensorType(op.outputShape, op.elemType),
                    BuilderTranspose(op.input, op.inputShape, op.elemType, op.perm))>>
  /\ UNCHANGED <<op, diags, passState, func, sink, threads>>

\* ConstPropReshapeImpl: OnnxElementsAttrBuilder::reshape keeps the
\* row-major elements and gives them the new shape.
ConstPropReshapeImpl(o, reshapedShape) ==
  Elements(TensorType(reshapedShape, o.elemType), o.input)

ConstPropUnsqueeze ==
  /\ pc = "offered"
  /\ op.kind = "Unsqueeze"
  /\ counters' = count(counters, "Unsqueeze", <<Len(op.input)>>)
  /\ trace' = [kind |-> "Unsqueeze"]
  /\ pc' = "folded"
  /\ created' = <<createReplacingConstantOp(
                    TensorType(op.outputShape, op.elemType),
                    ConstPropReshapeImpl(op, op.outputShape))>>
  /\ UNCHANGED <<op, diags, passState, func, sink, threads>>

ConstPropSqueeze ==
  /\ pc = "offered"
  /\ op.kind = "Squeeze"
  /\ counters' = count(counters, "Squeeze", <<Len(op.input)>>)
  /\ trace' = [kind |-> "Squeeze"]
  /\ pc' = "folded"
  /\ created' = <<createReplacingConstantOp(
                    TensorType(op.outputShape, op.elemType),
                    ConstPropReshapeImpl(op, op.outputShape))>>
  /\ UNCHANGED <<op, diags, passState, func, sink, threads>>

ConstPropReshape ==
  /\ pc = "offered"
  /\ op.kind = "Reshape"
  /\ counters' = count(counters, "Reshape", <<Len(op.input)>>)
  /\ trace' = [kind |-> "Reshape"]
  /\ pc' = "folded"
  /\ created' = <<createReplacingConstantOp(
                    TensorType(op.outputShape, op.elemType),
                    ConstPropReshapeImpl(op, op.outputShape))>>
  /\ UNCHANGED <<op, diags, passState, func, sink, threads>>

\* The conversion of one element between element types ("i64", "f32",
\* "i1"), on the small integers of the model.
CastValue(v, from, to) ==
  CASE from = to   -> v
    [] to = "i1"   -> v # 0
    [] from = "i1" -> IF v THEN 1 ELSE 0
    [] OTHER       -> v

\* OnnxElementsAttrBuilder::castElementType
BuilderCastElementType(o, toType) ==
  Elements(TensorType(o.inputShape, toType),
           [q \in 1..Len(o.input) |-> CastValue(o.input[q], o.elemType, toType)])

ConstPropCast ==
  /\ pc = "offered"
  /\ op.kind = "Cast"
  /\ counters' = count(counters, "Cast", <<Len(op.input)>>)
  /\ trace' = [kind |-> "Cast"]
  /\ pc' = "folded"
  /\ created' = <<createReplacingConstantOp(
                    TensorType(op.outputShape, op.outputType),
                    BuilderCastElementType(op, op.outputType))>>
  /\ UNCHANGED <<op, diags, passState, func, sink, threads>>

\* OnnxElementsAttrBuilder::expand: the input broadcast to expandedShape.
BuilderExpand(o, expandedShape) ==
  Elements(TensorType(expandedShape, o.elemType),
    [q \in 1..NumElements(expandedShape) |->
       o.input[RowMajor(BroadcastIndex(Unflatten(q - 1, expandedShape),
                                       o.inputShape), o.inputShape) + 1]])

ConstPropExpand ==
  /\ pc = "offered"
  /\ op.kind = "Expand"
  /\ counters' = count(counters, "Expand", <<Len(op.input)>>)
  /\ trace' = [kind |-> "Expand"]
  /\ pc' = "folded"
  /\ created' = <<createReplacingConstantOp(
                    TensorType(op.outputShape, op.elemType),
                    BuilderExpand(op, op.outputShape))>>
  /\ UNCHANGED <<op, diags, passState, func, sink, threads>>

\* An operation with one data operand; paramElems is the number of elements
\* of its constant parameter operand (shape, axes), 0 when it has none.
UnaryShapeOp(kind, inputShape, elemType, outputShape, outputType, paramElems) ==
  [kind        |-> kind,
   inputShape  |-> inputShape,
   input       |-> IF elemType = "i1"
                     THEN [i \in 1..NumElements(inputShape) |-> i % 2 = 0]
                     ELSE Iota(NumElements(inputShape), 0),
   elemType    |-> elemType,
   outputShape |-> outputShape,
   outputType  |-> outputType,
   paramElems  |-> paramElems]

TransposeOp(inputShape, perm) ==
  [kind        |-> "Transpose",
   inputShape  |-> inputShape,
   input       |-> Iota(NumElements(inputShape), 0),
   elemType    |-> "i64",
   perm        |-> perm,
   outputShape |-> [a \in 1..Len(perm) |-> inputShape[perm[a] + 1]]]

WhereOp(condShape, lhsShape, rhsShape) ==
  [kind        |-> "Where",
   condType    |-> "i1",
   condShape   |-> condShape,
   cond        |-> [i \in 1..NumElements(condShape) |-> i % 2 = 1],
   elemType    |-> "i64",
   rhsType     |-> "i64",
   lhsShape    |-> lhsShape,
   lhs         |-> Iota(NumElements(lhsShape), 0),
   rhsShape    |-> rhsShape,
   rhs         |-> Iota(NumElements(rhsShape), 100),
   outputShape |-> BroadcastShape(condShape, BroadcastShape(lhsShape, rhsShape))]

PermsOfRank(rank) ==
  {perm \in Tuples(rank, 0..(rank - 1)) :
     \A a, b \in 1..rank : a # b => perm[a] # perm[b]}

\* The ops of these kinds offered with constant operands.
InitShapeOps ==
  /\ \/ \E inputShape \in ShapesOf(0, MaxRank, 0..MaxDim) :
          \E perm \in PermsOfRank(Len(inputShape)) :
            op = TransposeOp(inputShape, perm)
     \/ \E inputShape \in ShapesOf(0, MaxRank, 0..MaxDim) :
          \E outputShape \in ShapesOf(0, MaxRank, 0..MaxDim) :
            /\ NumElements(inputShape) = NumElements(outputShape)
            /\ \E kind \in {"Reshape", "Unsqueeze", "Squeeze"} :
                 /\ kind = "Unsqueeze" => Len(outputShape) > Len(inputShape)
                 /\ kind = "Squeeze" => Len(outputShape) < Len(inputShape)
                 /\ op = UnaryShapeOp(kind, inputShape, "i64", outputShape, "i64",
                           IF kind = "Reshape" THEN Len(outputShape)
                           ELSE IF kind = "Unsqueeze"
                             THEN Len(outputShape) - Len(inputShape)
                           ELSE Len(inputShape) - Len(outputShape))
     \/ \E inputShape \in ShapesOf(0, MaxRank, 0..MaxDim) :
          \E outputShape \in ShapesOf(0, MaxRank, 0..MaxDim) :
            /\ BroadcastCompatible(inputShape, outputShape)
            /\ BroadcastShape(inputShape, outputShape) = outputShape
            /\ op = UnaryShapeOp("Expand", inputShape, "i64", outputShape, "i64",
                                 Len(outputShape))
     \/ \E inputShape \in ShapesOf(0, MaxRank, 0..MaxDim) :
          \E from \in {"i64", "f32", "i1"} :
            \E to \in {"i64", "f32", "i1"} :
              op = UnaryShapeOp("Cast", inputShape, from, inputShape, to, 0)
     \/ \E condShape \in ShapesOf(0, 1, 1..MaxDim) :
          \E lhsShape \in ShapesOf(0, MaxRank, 1..MaxDim) :
            \E rhsShape \in ShapesOf(0, 1, 0..MaxDim) :
              /\ BroadcastCompatible(lhsShape, rhsShape)
              /\ BroadcastCompatible(condShape, BroadcastShape(lhsShape, rhsShape))
              /\ op = WhereOp(condShape, lhsShape, rhsShape)
  /\ InitRest

NextShapeOps ==
  \/ ConstPropWhere
  \/ ConstPropTranspose
  \/ ConstPropUnsqueeze
  \/ ConstPropSqueeze
  \/ ConstPropReshape
  \/ ConstPropCast
  \/ ConstPropExpand

SpecShapeOps == InitShapeOps /\ [][NextShapeOps]_vars

(***************************************************************************)
(* Every fold, on operations that carry the result types shape inference   *)
(* assigns them.                                                           *)
(***************************************************************************)
\* A Split has inferred result types when its constant sizes are extents
\* that sum to the extent of the axis.
SplitIsWellTyped(o) ==
  o.splitKind = "constant" =>
    /\ \A i \in 1..o.numResults : o.split[i].hi = 0
    /\ SeqSum([i \in 1..o.numResults |-> o.split[i].lo])
         = o.inputShape[(o.axis % Len(o.inputShape)) + 1]

InitWellTypedSplit ==
  /\ \E inputShape \in ShapesOf(1, MaxRank, 0..MaxDim) :
       \E axis \in 0..(Len(inputShape) - 1) :
         \E numResults \in 1..MaxResults :
           \E s \in SplitOperands(numResults) :
             \E kind \in (IF s[1] = "dynamic" THEN {"Split"}
                          ELSE {"Split", "SplitV11"}) :
               /\ op = [SplitOp(inputShape, axis, numResults, s[1], s[2], TRUE)
                          EXCEPT !.kind = kind]
               /\ SplitIsWellTyped(op)
  /\ InitRest

InitFolds ==
  \/ InitScatterNDWith({0, MaxDim}, ValidComp)
  \/ InitGatherWith({0, MaxDim}, GatherValidIdx)
  \/ InitSliceWith({0, MaxDim}, SliceAxisParams)
  \/ InitConcat
  \/ InitReduce
  \/ InitWellTypedSplit
  \/ InitElementwise
  \/ InitShapeOps

NextFolds ==
  \/ ConstPropScatterNDPattern
  \/ ConstPropGather
  \/ ConstPropSlice
  \/ ConstPropConcat
  \/ ConstPropReduce
  \/ ConstPropSplitPattern
  \/ ConstPropSplitV11Pattern
  \/ ConstPropElementwiseBinary
  \/ ConstPropElementwiseUnary
  \/ NextShapeOps

SpecFolds == InitFolds /\ [][NextFolds]_vars

\* The type of result i of the operation.
ResultType(o, i) ==
  CASE o.kind \in {"Split", "SplitV11"} -> TensorType(o.resultShapes[i], o.elemType)
    [] o.kind \in {"ElementwiseBinary", "ElementwiseUnary"}
                                        -> TensorType(o.outputShape, o.T)
    [] o.kind = "Cast"                  -> TensorType(o.outputShape, o.outputType)
    [] OTHER                            -> TensorType(o.outputShape, o.elemType)

NumResults(o) ==
  IF o.kind \in {"Split", "SplitV11"} THEN o.numResults ELSE 1

(***************************************************************************)
(* C17: every constant a fold creates has the shape and element type of    *)
(* the result it replaces, and the Elements it carries have that same      *)
(* shape and element type, with one element per position of the shape.     *)
(***************************************************************************)
C17_ShapeContract ==
  pc = "folded" =>
    /\ Len(created) = NumResults(op)
    /\ \A i \in 1..Len(created) :
         /\ TensorType(created[i].shape, created[i].elemType) = ResultType(op, i)
         /\ created[i].elemsShape = created[i].shape
         /\ created[i].elemsType = created[i].elemType
         /\ Len(created[i].elems) = NumElements(created[i].shape)

\* A ScatterND fold whose updates have another shape than the data.
C17_Witness ==
  /\ pc = "folded"
  /\ op.kind = "ScatterND"
  /\ op.updatesShape # op.dataShape
  /\ created[1].elemsShape = op.dataShape

\* The reduce no-op case: the data's Elements are the constant's.
C17_WitnessReduceNoop ==
  /\ pc = "folded"
  /\ op.kind = "Reduce"
  /\ trace.path = "noop"
  /\ Len(op.dataShape) = 2
  /\ created[1].elems = op.data

\* The reduce-on-empty case with keepdims = 0.
C17_WitnessReduceEmpty ==
  /\ pc = "folded"
  /\ op.kind = "Reduce"
  /\ trace.path = "identity"
  /\ op.keepdims = {0}
  /\ created[1].elemsShape = op.outputShape

(***************************************************************************)
(* One process: pass runs one after another, each offering operations to   *)
(* the patterns and ending with the report when the report option is set.  *)
(* ConstPropCounters::map lives as long as the process.                    *)
(***************************************************************************)
\* Operations the driver offers: some of every kind, among them a Slice the
\* shape helper rejects and operations whose operands are not constants.
ProcessOps ==
  {ScatterNDOp(<<MaxDim>>, 1, <<1>>, <<<<0>>>>),
   [ScatterNDOp(<<MaxDim>>, 1, <<1>>, <<<<0>>>>)
      EXCEPT !.isConstant = [f \in {"data", "indices", "updates"} |-> f # "indices"]],
   GatherOp(<<MaxDim>>, 0, <<1>>, <<0>>),
   SliceOp(<<MaxDim>>, <<<<0, 1, MaxDim>>>>),
   SliceOp(<<MaxDim>>, <<<<0, 0, 0>>>>),
   ConcatOp(<<1>>, 0, <<1, MaxDim>>),
   ReduceOp("Sum", "i64", <<MaxDim, 2>>, <<1>>, {}, {}),
   ReduceOp("Max", "i64", <<MaxDim>>, <<>>, {0}, {}),
   SplitOp(<<2, MaxDim>>, 0, 2, "constant", <<Int64(0, 1), Int64(0, 1)>>, TRUE),
   SplitOp(<<2, MaxDim>>, 0, 2, "none", <<>>, FALSE),
   [SplitOp(<<2>>, 0, 2, "none", <<>>, TRUE) EXCEPT !.kind = "SplitV11"],
   ElementwiseBinaryOp("Add", "int64_t", <<MaxDim>>, <<MaxDim>>),
   ElementwiseUnaryOp("Neg", "int64_t", <<MaxDim>>),
   WhereOp(<<MaxDim>>, <<MaxDim>>, <<>>),
   TransposeOp(<<1, MaxDim>>, <<1, 0>>),
   UnaryShapeOp("Unsqueeze", <<MaxDim>>, "i64", <<1, MaxDim>>, "i64", 1),
   UnaryShapeOp("Squeeze", <<1, MaxDim>>, "i64", <<MaxDim>>, "i64", 1),
   UnaryShapeOp("Reshape", <<MaxDim, 2>>, "i64", <<2, MaxDim>>, "i64", 2),
   UnaryShapeOp("Cast", <<MaxDim>>, "i64", <<MaxDim>>, "f32", 0),
   UnaryShapeOp("Expand", <<1>>, "i64", <<MaxDim>>, "i64", 1)}

\* The total of the invocations counted so far.
TotalInvocations(map) == dump(map).total_invocations

\* The driver offers the next operation of the function to the patterns.
GreedyDriverOffer ==
  /\ passState = "running"
  /\ pc \in {"folded", "declined", "replaced_by_null"}
  /\ TotalInvocations(counters) < MaxFolds
  /\ \E o \in ProcessOps : op' = o
  /\ pc' = "offered"
  /\ created' = <<>>
  /\ trace' = NoTrace
  /\ UNCHANGED <<counters, diags, passState, func, sink, threads>>

\* ConstPropONNXToONNXPass::runOnOperation up to the driver's first offer,
\* in a process in which the pass has run before.
RunOnOperationBegin ==
  /\ passState \in {"succeeded", "failed"}
  /\ TotalInvocations(counters) < MaxFolds
  /\ passState' = "running"
  /\ \E o \in ProcessOps : op' = o
  /\ pc' = "offered"
  /\ created' = <<>>
  /\ trace' = NoTrace
  /\ UNCHANGED <<counters, diags, func, sink, threads>>

\* The end of a pass run, with at most MaxDumps reports in the process.
RunOnOperationEndBounded ==
  /\ RunOnOperationEnd
  /\ Len(sink') <= MaxDumps

InitProcess ==
  /\ op \in ProcessOps
  /\ InitRest

NextProcess ==
  \/ NextFolds
  \/ GreedyDriverOffer
  \/ RunOnOperationEndBounded
  \/ RunOnOperationBegin

SpecProcess == InitProcess /\ [][NextProcess]_vars

\* The operator-family name of an operation's fold.
FamilyName(o) ==
  CASE o.kind = "ScatterND" -> "Scatter"
    [] o.kind = "SplitV11"  -> "Split"
    [] OTHER                -> o.kind

\* The element counts of the operands whose values the fold computes with.
DataOperandSizes(o) ==
  CASE o.kind = "ScatterND" -> <<NumElements(o.dataShape),
                                 NumElements(o.indicesShape),
                                 NumElements(o.updatesShape)>>
    [] o.kind = "Gather"    -> <<Len(o.input), Len(o.indices)>>
    [] o.kind = "Concat"    -> [k \in 1..Len(o.inputs) |-> Len(o.inputs[k])]
    [] o.kind = "Reduce"    -> <<Len(o.data)>>
    [] o.kind = "ElementwiseBinary" -> <<Len(o.lhs), Len(o.rhs)>>
    [] o.kind = "Where"     -> <<Len(o.cond), Len(o.lhs), Len(o.rhs)>>
    [] OTHER                -> <<Len(o.input)>>

\* The element counts of the constant operands that only parameterise the
\* fold: Reduce axes, Slice starts, ends, axes and steps, the split sizes of
\* Split, the shape of Reshape and Expand, the axes of Unsqueeze and Squeeze.
ParameterOperandSizes(o) ==
  CASE o.kind = "Reduce"  -> IF o.axes = <<>> THEN <<>> ELSE <<Len(o.axes)>>
    [] o.kind = "Slice"   -> <<Len(o.starts), Len(o.starts), Len(o.starts),
                               Len(o.steps)>>
    [] o.kind = "Split"   -> IF o.splitKind = "constant" THEN <<Len(o.split)>>
                             ELSE <<>>
    [] o.kind \in {"Reshape", "Expand", "Unsqueeze", "Squeeze"}
                          -> <<o.paramElems>>
    [] OTHER              -> <<>>

\* A fold step from counters to counters' that updates exactly the entry of
\* name: +1 invocation, + the sum of sizes, every other entry as it was.
UpdatesOneEntry(name, sizes) ==
  LET old == IF name \in DOMAIN counters THEN counters[name]
             ELSE [invocations |-> 0, input_elms |-> 0]
  IN /\ DOMAIN counters' = DOMAIN counters \cup {name}
     /\ counters'[name].invocations = old.invocations + 1
     /\ counters'[name].input_elms = old.input_elms + SeqSum(sizes)
     /\ \A n \in DOMAIN counters \ {name} : counters'[n] = counters[n]

SuccessfulFold == pc = "offered" /\ pc' = "folded"

(***************************************************************************)
(* C12 as stated: every successful fold updates exactly the entry of its   *)
(* family name, by 1 invocation and by the sum of the element counts of    *)
(* all of the fold's constant operands.                                    *)
(***************************************************************************)
C12_CountsConstantOperands ==
  [][SuccessfulFold =>
       UpdatesOneEntry(FamilyName(op),
                       DataOperandSizes(op) \o ParameterOperandSizes(op))]_vars

(***************************************************************************)
(* C12 amended: every successful fold updates exactly the entry of its     *)
(* family name, by 1 invocation and by the sum of the element counts of    *)
(* its data operands; parameter operands are not counted; every other      *)
(* entry is unchanged.                                                     *)
(***************************************************************************)
C12_CountsDataOperands ==
  [][SuccessfulFold => UpdatesOneEntry(FamilyName(op), DataOperandSizes(op))]_vars

\* A second fold in the process, of another family than the first: an Add
\* of two constants next to an entry that stays as it was.
C12_Witness ==
  /\ pc = "folded"
  /\ op.kind = "ElementwiseBinary"
  /\ counters["ElementwiseBinary"] =
       [invocations |-> 1, input_elms |-> Len(op.lhs) + Len(op.rhs)]
  /\ "Reduce" \in DOMAIN counters

\* A pattern application that returns to the driver without having
\* replaced the operation by constants: NoMatch, or a fold that fails.
UnsuccessfulApplication ==
  pc = "offered" /\ pc' \in {"declined", "replaced_by_null"}

(***************************************************************************)
(* C20: a pattern application that does not replace its operation by       *)
(* constants, a NoMatch or a Slice whose parameters the shape helper       *)
(* rejects, leaves the whole counter mapping unchanged.                    *)
(***************************************************************************)
C20_CountersOnlyOnFolds ==
  [][UnsuccessfulApplication => counters' = counters]_vars

\* The report r renders the mapping map: N, T and E of the header and
\* exactly one line per entry.
ReportOf(r, map) ==
  /\ r.entries = Cardinality(DOMAIN map)
  /\ r.total_invocations = SetSum(DOMAIN map, [n \in DOMAIN map |-> map[n].invocations])
  /\ r.total_input_elms = SetSum(DOMAIN map, [n \in DOMAIN map |-> map[n].input_elms])
  /\ Len(r.lines) = Cardinality(DOMAIN map)
  /\ \A n \in DOMAIN map :
       \E i \in 1..Len(r.lines) :
         r.lines[i] = [name |-> n, invocations |-> map[n].invocations,
                       input_elms |-> map[n].input_elms]

\* The header of a report agrees with its lines.
ReportSelfConsistent(r) ==
  /\ r.entries = Len(r.lines)
  /\ \A i, j \in 1..Len(r.lines) : i # j => r.lines[i].name # r.lines[j].name
  /\ r.total_invocations = SeqSum([i \in 1..Len(r.lines) |-> r.lines[i].invocations])
  /\ r.total_input_elms = SeqSum([i \in 1..Len(r.lines) |-> r.lines[i].input_elms])

\* Every line of the earlier report is in the later one with counts that
\* are not smaller.
ReportExtends(later, earlier) ==
  \A i \in 1..Len(earlier.lines) :
    \E j \in 1..Len(later.lines) :
      /\ later.lines[j].name = earlier.lines[i].name
      /\ later.lines[j].invocations >= earlier.lines[i].invocations
      /\ later.lines[j].input_elms >= earlier.lines[i].input_elms

\* No step resets or decreases an entry.
CountersGrow ==
  \A n \in DOMAIN counters :
    /\ n \in DOMAIN counters'
    /\ counters'[n].invocations >= counters[n].invocations
    /\ counters'[n].input_elms >= counters[n].input_elms

\* A step that writes to the sink appends the report of the mapping as it
\* is, and leaves the mapping unchanged.
DumpStep ==
  sink' # sink =>
    /\ Len(sink') = Len(sink) + 1
    /\ SubSeq(sink', 1, Len(sink)) = sink
    /\ ReportOf(sink'[Len(sink')], counters)
    /\ counters' = counters

(***************************************************************************)
(* C13: after any sequence of folds, dumps and pass runs in one process,   *)
(* every report has N = the number of names counted since process start,   *)
(* T and E = the sums over the entries, and one line per entry; reports    *)
(* are cumulative; counters are never reset or decreased, between pass     *)
(* runs included; dump leaves the mapping unchanged.                       *)
(***************************************************************************)
C13_ReportCumulative ==
  /\ [](\A k \in 1..Len(sink) : ReportSelfConsistent(sink[k]))
  /\ [](\A k \in 1..(Len(sink) - 1) : ReportExtends(sink[k + 1], sink[k]))
  /\ [][DumpStep]_vars
  /\ [][CountersGrow]_vars

\* Two pass runs with reports in one process: the second report has both
\* families and the totals of both folds.
C13_Witness ==
  /\ Len(sink) = 2
  /\ sink[1].entries = 1
  /\ sink[1].total_invocations = 1
  /\ sink[2].entries = 2
  /\ sink[2].total_invocations = 2
  /\ sink[2].total_input_elms > sink[1].total_input_elms
  /\ sink[2] = dump(counters)

(***************************************************************************)
(* Two instances of the pass on two functions of one module, run by the    *)
(* pass manager on two threads.  ConstPropCounters::map is shared and      *)
(* count takes no lock: its lookup, and the load and the store of each +=, *)
(* are separate steps of a thread.                                         *)
(***************************************************************************)
Threads == {1, 2}

\* The count calls the folds of a thread make.
CountCalls ==
  {[name |-> "Reshape", sizes |-> <<MaxDim>>],
   [name |-> "ElementwiseBinary", sizes |-> <<MaxDim, MaxDim>>]}

CallSeqs == UNION {Tuples(n, CountCalls) : n \in 1..MaxCalls}

Thread(calls) ==
  [calls |-> calls, made |-> <<>>, at |-> "call", oprnd |-> 0, loaded |-> 0]

InitConcurrent ==
  /\ \E c1 \in CallSeqs : \E c2 \in CallSeqs :
       threads = <<Thread(c1), Thread(c2)>>
  /\ op = ElementwiseBinaryOp("Add", "int64_t", <<MaxDim>>, <<MaxDim>>)
  /\ pc = "offered"
  /\ created = <<>>
  /\ trace = NoTrace
  /\ counters = NoCounters
  /\ diags = 0
  /\ passState = "running"
  /\ func = <<>>
  /\ sink = <<>>

OtherInCount(t) ==
  \E u \in Threads \ {t} : threads[u].at \notin {"call", "done", "crashed"}

\* auto &counters = map[name]: finds the entry or inserts a zero one.  An
\* insertion while another thread is inside count is a race on the table:
\* it may go well, or break the process.
CountLookup(t) ==
  /\ threads[t].at = "call"
  /\ threads[t].calls # <<>>
  /\ LET name == threads[t].calls[1].name
     IN IF name \in DOMAIN counters
          THEN /\ counters' = counters
               /\ threads' = [threads EXCEPT ![t].at = "inv_load"]
          ELSE \/ /\ counters' = [n \in (DOMAIN counters) \cup {name} |->
                                    IF n = name
                                      THEN [invocations |-> 0, input_elms |-> 0]
                                      ELSE counters[n]]
                  /\ threads' = [threads EXCEPT ![t].at = "inv_load"]
               \/ /\ OtherInCount(t)
                  /\ counters' = counters
                  /\ threads' = [threads EXCEPT ![t].at = "crashed"]
  /\ UNCHANGED <<op, pc, created, trace, diags, passState, func, sink>>

\* counters.invocations += 1, the load
CountLoadInvocations(t) ==
  /\ threads[t].at = "inv_load"
  /\ threads' = [threads EXCEPT
                   ![t].at = "inv_store",
                   ![t].loaded = counters[threads[t].calls[1].name].invocations]
  /\ UNCHANGED <<op, pc, created, trace, counters, diags, passState, func, sink>>

\* What follows the store for operand k of the call: the next operand, or
\* the return from count.
AfterOperand(th, k) ==
  IF k < Len(th.calls[1].sizes)
    THEN [th EXCEPT !.at = "elm_load", !.oprnd = k + 1, !.loaded = 0]
    ELSE [th EXCEPT !.at = IF Len(th.calls) = 1 THEN "done" ELSE "call",
                    !.made = Append(th.made, th.calls[1]),
                    !.calls = Tail(th.calls),
                    !.oprnd = 0, !.loaded = 0]

\* counters.invocations += 1, the store
CountStoreInvocations(t) ==
  /\ threads[t].at = "inv_store"
  /\ counters' = [counters EXCEPT ![threads[t].calls[1].name].invocations =
                                     threads[t].loaded + 1]
  /\ threads' = [threads EXCEPT ![t] = AfterOperand(threads[t], 0)]
  /\ UNCHANGED <<op, pc, created, trace, diags, passState, func, sink>>

\* counters.input_elms += getNumberOfElements(oprnd.getType()), the load
CountLoadInputElms(t) ==
  /\ threads[t].at = "elm_load"
  /\ threads' = [threads EXCEPT
                   ![t].at = "elm_store",
                   ![t].loaded = counters[threads[t].calls[1].name].input_elms]
  /\ UNCHANGED <<op, pc, created, trace, counters, diags, passState, func, sink>>

\* counters.input_elms += getNumberOfElements(oprnd.getType()), the store
CountStoreInputElms(t) ==
  /\ threads[t].at = "elm_store"
  /\ counters' = [counters EXCEPT ![threads[t].calls[1].name].input_elms =
                     threads[t].loaded + threads[t].calls[1].sizes[threads[t].oprnd]]
  /\ threads' = [threads EXCEPT ![t] = AfterOperand(threads[t], threads[t].oprnd)]
  /\ UNCHANGED <<op, pc, created, trace, diags, passState, func, sink>>

NextConcurrent ==
  \E t \in Threads :
    \/ CountLookup(t)
    \/ CountLoadInvocations(t)
    \/ CountStoreInvocations(t)
    \/ CountLoadInputElms(t)
    \/ CountStoreInputElms(t)

SpecConcurrent == InitConcurrent /\ [][NextConcurrent]_vars

\* The calls both threads have made for name.
CallsMade(name) ==
  SelectSeq(threads[1].made \o threads[2].made, LAMBDA c : c.name = name)

(***************************************************************************)
(* C19: after both threads have finished, each entry's invocations is the  *)
(* number of count calls both threads made for its name, and its           *)
(* input-element-count the total of their operand element counts.          *)
(***************************************************************************)
C19_NoLostUpdate ==
  (\A t \in Threads : threads[t].at = "done") =>
    \A name \in {c.name : c \in CountCalls} :
      LET made == CallsMade(name)
      IN IF made = <<>> THEN name \notin DOMAIN counters
         ELSE /\ name \in DOMAIN counters
              /\ counters[name].invocations = Len(made)
              /\ counters[name].input_elms =
                   SeqSum([i \in 1..Len(made) |-> SeqSum(made[i].sizes)])

(***************************************************************************)
(* The pass on a function: applyPatternsAndFoldGreedily offers the         *)
(* operations of the body to the patterns, in any order, until none        *)
(* applies.  A body is a sequence of nodes whose operands are earlier      *)
(* nodes; a fold turns its node into a constant.  The same function is     *)
(* given to two executions of the pass, which are independent.             *)
(***************************************************************************)
ConstantNode(val) == [name |-> "Constant", args |-> <<>>, flaw |-> "none", val |-> val]

\* A value the pass cannot see through (a function argument).
ArgumentNode == [name |-> "Argument", args |-> <<>>, flaw |-> "none", val |-> 0]

\* What replaceOp leaves where the fold returned a null Value.
NullNode == [name |-> "Null", args |-> <<>>, flaw |-> "none", val |-> 0]

OpNode(name, args, flaw) == [name |-> name, args |-> args, flaw |-> flaw, val |-> 0]

\* The operations of the bodies: folds that succeed, and operations on
\* which the patterns of this file do something else.
OpKinds ==
  {[name |-> "Add",       arity |-> 2, flaw |-> "none"],
   [name |-> "Reshape",   arity |-> 1, flaw |-> "none"],
   [name |-> "Slice",     arity |-> 1, flaw |-> "zero_step"],
   [name |-> "Split",     arity |-> 1, flaw |-> "dynamic_split"],
   [name |-> "Gather",    arity |-> 1, flaw |-> "index_out_of_range"],
   [name |-> "ScatterND", arity |-> 1, flaw |-> "unranked_result"]}

NodesAt(i) ==
  {ConstantNode(v) : v \in {0, 1}} \cup {ArgumentNode}
    \cup UNION {{OpNode(k.name, args, k.flaw) : args \in Tuples(k.arity, 1..(i - 1))} :
                  k \in OpKinds}

RECURSIVE Bodies(_)
Bodies(n) ==
  IF n = 0 THEN {<<>>}
  ELSE UNION {{Append(b, node) : node \in NodesAt(n)} : b \in Bodies(n - 1)}

IsOp(node) == node.name \notin {"Constant", "Argument", "Null"}

\* What the pattern of node i does when the driver offers the node.
PatternOutcome(ir, i) ==
  LET node == ir[i]
      operands == [a \in 1..Len(node.args) |-> ir[node.args[a]]]
  IN IF ~IsOp(node) THEN "none"
     ELSE IF node.flaw = "dynamic_split" THEN "unreachable"
     ELSE IF \E a \in 1..Len(operands) : operands[a].name = "Null" THEN "null_operand"
     ELSE IF \E a \in 1..Len(operands) : operands[a].name # "Constant" THEN "nomatch"
     ELSE CASE node.flaw = "none"               -> "fold"
            [] node.flaw = "zero_step"          -> "reject"
            [] node.flaw = "index_out_of_range" -> "undefined"
            [] node.flaw = "unranked_result"    -> "nomatch"

\* The value of the constant a successful fold creates.
FoldValue(ir, i) ==
  LET node == ir[i]
  IN IF node.name = "Add"
       THEN (ir[node.args[1]].val + ir[node.args[2]].val) % 2
       ELSE ir[node.args[1]].val

\* What an out-of-range read may find.
GarbageValues == {0, 1}

\* The driver stops offering when it has given up; it reports convergence
\* when no pattern applied in its last sweep.
DriverStopsAnywhere(ir) == TRUE

Converged(ir) ==
  \A i \in 1..Len(ir) :
    PatternOutcome(ir, i) \in {"none", "nomatch", "null_operand"}

Execution(ir) ==
  [ir |-> ir, state |-> "running", run |-> 1, before |-> ir, folds |-> 0,
   counters |-> NoCounters]

Executions == {1, 2}

InitDriver ==
  /\ \E n \in 1..MaxNodes : op \in Bodies(n)
  /\ func = <<Execution(op), Execution(op)>>
  /\ pc = "offered"
  /\ created = <<>>
  /\ trace = NoTrace
  /\ counters = NoCounters
  /\ diags = 0
  /\ passState = "running"
  /\ sink = <<>>
  /\ threads = <<>>

DriverFrame == UNCHANGED <<op, pc, created, trace, counters, diags, passState, sink, threads>>

Counted(x, i) ==
  count(x.counters, x.ir[i].name, [a \in 1..Len(x.ir[i].args) |-> 1])

\* A pattern folds node i: the node becomes the constant.
DriverFold(e, i) ==
  /\ func[e].state = "running"
  /\ PatternOutcome(func[e].ir, i) = "fold"
  /\ func' = [func EXCEPT
                ![e].ir[i] = ConstantNode(FoldValue(func[e].ir, i)),
                ![e].folds = func[e].folds + 1,
                ![e].counters = Counted(func[e], i)]
  /\ DriverFrame

\* The Gather or ScatterND fold with an index out of range: a constant of
\* whatever the read found, or the end of the process.
DriverFoldUndefined(e, i) ==
  /\ func[e].state = "running"
  /\ PatternOutcome(func[e].ir, i) = "undefined"
  /\ \/ \E v \in GarbageValues :
          func' = [func EXCEPT
                     ![e].ir[i] = ConstantNode(v),
                     ![e].folds = func[e].folds + 1,
                     ![e].counters = Counted(func[e], i)]
     \/ func' = [func EXCEPT ![e].state = "crashed",
                             ![e].counters = Counted(func[e], i)]
  /\ DriverFrame

\* ConstPropSlice with parameters the shape helper rejects: counted, an
\* error emitted, the op replaced by a null value.
DriverSliceRejected(e, i) ==
  /\ func[e].state = "running"
  /\ PatternOutcome(func[e].ir, i) = "reject"
  /\ func' = [func EXCEPT ![e].ir[i] = NullNode,
                          ![e].counters = Counted(func[e], i)]
  /\ DriverFrame

\* ConstPropSplitPattern on a split operand that is not a constant.
DriverUnreachable(e, i) ==
  /\ func[e].state = "running"
  /\ PatternOutcome(func[e].ir, i) = "unreachable"
  /\ func' = [func EXCEPT ![e].state = "unreachable"]
  /\ DriverFrame

\* A pattern that looks at the defining op of a null operand.
DriverNullOperand(e, i) ==
  /\ func[e].state = "running"
  /\ PatternOutcome(func[e].ir, i) = "null_operand"
  /\ func' = [func EXCEPT ![e].state = "crashed"]
  /\ DriverFrame

\* runOnOperation after applyPatternsAndFoldGreedily has returned.
DriverReturns(e) ==
  /\ func[e].state = "running"
  /\ Converged(func[e].ir)
  /\ func' = [func EXCEPT ![e].state = "succeeded"]
  /\ DriverFrame

\* The pass is run once more on the function the first run left.
SecondRun(e) ==
  /\ func[e].state = "succeeded"
  /\ func[e].run = 1
  /\ func' = [func EXCEPT ![e].state = "running", ![e].run = 2,
                          ![e].before = func[e].ir, ![e].folds = 0]
  /\ DriverFrame

\* The steps of one execution.
ExecutionStep(e) ==
  \/ \E i \in 1..Len(func[e].ir) :
       \/ DriverFold(e, i)
       \/ DriverFoldUndefined(e, i)
       \/ DriverSliceRejected(e, i)
       \/ DriverUnreachable(e, i)
       \/ DriverNullOperand(e, i)
  \/ DriverReturns(e)
  \/ SecondRun(e)

NextDriver == \E e \in Executions : ExecutionStep(e)

SpecDriver == InitDriver /\ [][NextDriver]_vars

\* Each execution keeps going while it has a step to take.
SpecDriverFair == SpecDriver /\ \A e \in Executions : WF_vars(ExecutionStep(e))

\* A supported operation whose operands are all dense constants.
AllOperandsConstant(ir, i) ==
  /\ IsOp(ir[i])
  /\ \A a \in 1..Len(ir[i].args) : ir[ir[i].args[a]].name = "Constant"

NonConstantOps(ir) == Cardinality({i \in 1..Len(ir) : IsOp(ir[i])})

(***************************************************************************)
(* C14: every run of the pass terminates, and ends in a state where no     *)
(* supported operation remains whose operands are all dense constants;     *)
(* each fold decreases the number of non-constant operations by one.       *)
(***************************************************************************)
C14_TerminatesAtFixedPoint ==
  /\ \A e \in Executions : <>(func[e].state = "succeeded")
  /\ [](\A e \in Executions :
          func[e].state = "succeeded" =>
            \A i \in 1..Len(func[e].ir) : ~AllOperandsConstant(func[e].ir, i))
  /\ [][\A e \in Executions :
          func'[e].folds > func[e].folds =>
            NonConstantOps(func'[e].ir) = NonConstantOps(func[e].ir) - 1]_vars

(***************************************************************************)
(* C15: a second run of the pass, on the function a first run that         *)
(* succeeded has left, performs no fold and leaves the function as it was. *)
(***************************************************************************)
C15_SecondRunFoldsNothing ==
  \A e \in Executions :
    func[e].run = 2 =>
      /\ func[e].folds = 0
      /\ func[e].ir = func[e].before

\* A finished second run on a function of which the first run folded a
\* chain: an operation and the consumer of its constant.
C15_Witness ==
  /\ func[1].run = 2
  /\ func[1].state = "succeeded"
  /\ Len(op) = 3
  /\ op[2].name = "Add"
  /\ op[3].name = "Reshape"
  /\ op[3].args = <<2>>
  /\ func[1].ir[2].name = "Constant"
  /\ func[1].ir[3].name = "Constant"

(***************************************************************************)
(* C16: whatever the order in which the driver offers the operations, two  *)
(* runs of the pass on the same function end with the same function: the   *)
(* same remaining operations and the same constant values.                 *)
(***************************************************************************)
C16_SameFinalFunction ==
  (\A e \in Executions : func[e].run = 1 /\ func[e].state = "succeeded") =>
    func[1].ir = func[2].ir

(***************************************************************************)
(* Reductions with any axes: in range or not, distinct or not.             *)
(***************************************************************************)
\* The result type is left at the data's type for axes shape inference
\* would not accept.
ReduceOpAnyAxes(reduceOp, dataShape, axes, keepdims) ==
  LET rank == Len(dataShape)
      ok   == \A k \in 1..Len(axes) : -rank <= axes[k] /\ axes[k] < rank
  IN IF ok THEN ReduceOp(reduceOp, "i64", dataShape, axes, keepdims, {})
     ELSE [ReduceOp(reduceOp, "i64", dataShape, <<>>, keepdims, {1})
             EXCEPT !.axes = axes, !.noop_with_empty_axes = {}]

InitReduceAxes ==
  /\ \E dataShape \in ShapesOf(0, MaxRank, 1..MaxDim) :
       \E axes \in ShapesOf(0, 2, (-Len(dataShape) - 1)..Len(dataShape)) :
         \E reduceOp \in {"Sum", "Max", "Mean"} :
           \E keepdims \in {{}, {0}} :
             op = ReduceOpAnyAxes(reduceOp, dataShape, axes, keepdims)
  /\ InitRest

SpecReduceAxes == InitReduceAxes /\ [][NextReduce]_vars

\* An axis as ONNX reads it, and the axes a reduction may be given.
NormalisedAxis(a, rank) == IF a < 0 THEN a + rank ELSE a

AxesAcceptable(axes, rank) ==
  /\ \A k \in 1..Len(axes) : -rank <= axes[k] /\ axes[k] < rank
  /\ \A j, k \in 1..Len(axes) :
       j # k => NormalisedAxis(axes[j], rank) # NormalisedAxis(axes[k], rank)

(***************************************************************************)
(* C21: the axes handed to the builder's reduce are absolute, each in      *)
(* [0, rank), and pairwise distinct, a negative axis a having become       *)
(* a + rank; an axis outside [-rank, rank), or two axes equal after        *)
(* normalisation, is rejected and no reduction is performed.               *)
(***************************************************************************)
C21_ReduceAxesNormalised ==
  (pc # "offered" /\ op.kind = "Reduce") =>
    LET rank == Len(op.dataShape)
    IN IF AxesAcceptable(op.axes, rank)
         THEN /\ pc = "folded"
              /\ \A k \in 1..Len(trace.absoluteAxes) :
                   /\ 0 <= trace.absoluteAxes[k]
                   /\ trace.absoluteAxes[k] < rank
              /\ \A j, k \in 1..Len(trace.absoluteAxes) :
                   j # k => trace.absoluteAxes[j] # trace.absoluteAxes[k]
              /\ op.axes # <<>> =>
                   trace.absoluteAxes =
                     [k \in 1..Len(op.axes) |-> NormalisedAxis(op.axes[k], rank)]
         ELSE /\ pc = "aborted"
              /\ trace.path = "axes"
              /\ created = <<>>

\* A reduction over the axes -1 and 0 of a rank-2 tensor.
C21_Witness ==
  /\ pc = "folded"
  /\ op.kind = "Reduce"
  /\ op.axes = <<-1, 0>>
  /\ trace.absoluteAxes = <<1, 0>>
  /\ trace.path = "reduce"

\* The axes -1 and rank - 1 of a rank-2 tensor: rejected.
C21_WitnessDuplicate ==
  /\ pc = "aborted"
  /\ op.kind = "Reduce"
  /\ op.axes = <<-1, 1>>
  /\ created = <<>>

(***************************************************************************)
(* C22: for every Split with a constant input, a negative axis attribute   *)
(* included, the axis used to index the input shape and passed to the      *)
(* builder's split lies in [0, rank(input)).                               *)
(***************************************************************************)
C22_SplitAxisInRange ==
  (op.kind = "Split" /\ pc \in {"folded", "aborted", "crashed"}) =>
    /\ 0 <= trace.splitAxis
    /\ trace.splitAxis < Len(op.inputShape)

=============================================================================
